---- MODULE Spec2Model ----
(***************************************************************************)
(* Model of tartare-logs: the LogReader match-wait engine                  *)
(* (lib/log-reader.js) on top of the notifications of a LogWatcher.        *)
(*                                                                         *)
(* A JavaScript value is modelled as a record [t, s]: its type tag and     *)
(* its string form.  A log record or a template is [type, fields]: an      *)
(* object with own properties `fields`, or null.                           *)
(*                                                                         *)
(* Several specifications share the module.  Spec (FairSpec) is the reader *)
(* with its waiters, the watcher being its environment.  MatchSpec applies *)
(* _matches to bounded records and templates.  ParseSpec applies           *)
(* _parseLogEntry to a line and _matches to the record it gives.           *)
(* WatchSpec (FairWatchSpec) is the LogWatcher: chunks of characters from  *)
(* an attached source, the retention timer, start and stop; the listeners  *)
(* of its notifications return normally.                                   *)
(* ConstructSpec constructs a watcher from a configuration.  FileSpec is   *)
(* the source of a watcher: a file that is created and grows, polled or    *)
(* watched through its directory, or a stream, with listeners that may     *)
(* call start() and stop(); TruncSpec is FileSpec with a file that may     *)
(* also be truncated.  ReaderWatcherSpec is LogReader.start and stop on a  *)
(* watcher that parses the chunks of its source.  LineSpec delivers a text *)
(* to a watcher in chunks cut at arbitrary offsets.  FsSpec is             *)
(* createLogFS of lib/resilience.js with its asynchronous steps.           *)
(***************************************************************************)
EXTENDS Integers, Sequences, FiniteSets, TLC

\* ------------------------------------------------------------------ bounds
NumWaiters == 2
MaxLogs == 2
MaxErrors == 2
NumPaths == 3

Waiters == 1..NumWaiters

\* --------------------------------------------------------------- JS values
Str(x) == [t |-> "string", s |-> x]
Num(x) == [t |-> "number", s |-> x]
RegExp(x) == [t |-> "regexp", s |-> x]
Undefined == [t |-> "undefined", s |-> "undefined"]
Null == [t |-> "null", s |-> "null"]

Obj(f) == [type |-> "object", fields |-> f]
NullObj == [type |-> "null", fields |-> [x \in {} |-> Null]]
\* placeholder for "no record" in a callback entry (not a JS value)
NoLog == [type |-> "none", fields |-> [x \in {} |-> Null]]

\* Records the watcher can deliver: objects, and null (a custom function
\* returning null, or the JSON document `null`, is pushed and emitted as is)
RecA == Obj([f \in {"msg"} |-> Str("a")])
RecB == Obj([f \in {"msg"} |-> Str("b")])
Records == {RecA, RecB, NullObj}

\* Templates handed to waitForLogToExist: null (match any) or field maps
TmplA == Obj([f \in {"msg"} |-> Str("a")])
Templates == {NullObj, TmplA}

\* An error emitted by the watcher: message and util.inspect(details)
ErrParse == [message |-> "E1", details |-> "D1"]
Errs == {ErrParse}

EOL == "EOL"

\* JS truthiness of what a records list can hold
Truthy(v) == v.type = "object"

\* strings (string forms of values) hit by a regular expression
RegExpHits(r) ==
  CASE r = "/a/" -> {"a"}
    [] r = "/b/" -> {"b"}
    [] r = "/\\d/" -> {"3"}
    [] OTHER -> {}

\* One field of the template against the record: "true", "false", or
\* "TypeError" (toString of a null or undefined value)
FieldMatches(log, logTemplate, fieldName) ==
  IF fieldName \notin DOMAIN log.fields THEN "false"
  ELSE IF logTemplate.fields[fieldName].t = "undefined" THEN "true"
  ELSE IF logTemplate.fields[fieldName].t = "regexp"
       THEN IF log.fields[fieldName].t \in {"null", "undefined"} THEN "TypeError"
            ELSE IF log.fields[fieldName].s \in RegExpHits(logTemplate.fields[fieldName].s)
                 THEN "true" ELSE "false"
  ELSE IF log.fields[fieldName] = logTemplate.fields[fieldName] THEN "true" ELSE "false"

\* LogReader.prototype._matches: "true", "false" or "TypeError" (thrown)
_matches(log, logTemplate) ==
  IF logTemplate.type # "object" THEN "true"
  ELSE LET keys == DOMAIN logTemplate.fields IN
       IF keys = {} THEN "TypeError"            \* reduce of an empty array
       ELSE IF log.type # "object" THEN "TypeError"   \* null.hasOwnProperty
       ELSE IF \E f \in keys : FieldMatches(log, logTemplate, f) = "TypeError"
            THEN "TypeError"
       ELSE IF \A f \in keys : FieldMatches(log, logTemplate, f) = "true"
            THEN "true" ELSE "false"

\* ------------------------------------------------------- callback results
\* what cb received, and whether the waiter's timer was armed / the waiter
\* subscribed at the moment cb was invoked
\* errLogs is the `logs` property of the error handed to cb: "none", or
\* "self.logs", a reference to the reader's own array (err.logs = self.logs
\* copies nothing); inLogs tells whether a record handed to cb was in
\* self.logs at that moment
CbEntry(kind, log, msg, armed, sub) ==
  [kind |-> kind, log |-> log, msg |-> msg, timerArmed |-> armed, subscribed |-> sub,
   errLogs |-> "none", inLogs |-> TRUE]

\* message of one error: err.message + os.EOL + util.inspect(err.details)
ErrorText(err) == <<err.message, EOL, err.details>>

RECURSIVE JoinEOL(_)
JoinEOL(texts) ==
  IF texts = <<>> THEN <<>>
  ELSE IF Len(texts) = 1 THEN texts[1]
  ELSE texts[1] \o <<EOL>> \o JoinEOL(Tail(texts))

\* os.EOL + errors.map(...).join(os.EOL)
AggregateMessage(errs) == <<EOL>> \o JoinEOL([i \in 1..Len(errs) |-> ErrorText(errs[i])])

\* ------------------------------------------------------------------ state
VARIABLES
  logs,           \* LogReader.logs
  errors,         \* LogReader.errors
  listening,      \* the reader's 'log'/'error' listeners are on a started watcher
  subscriptions,  \* how many 'log' and 'error' listeners the reader has on its watcher
  pc,             \* per waitForLogToExist call: "idle", "returned", "threw", "waiting"
  logTemplate,    \* per call: the template captured by its closures
  strict,         \* per call: opts.strict
  timeoutId,      \* per call: TRUE while its setTimeout timer is armed
  cbs,            \* per call: the invocations of cb so far, in order
  internallog,    \* internalDispatcher listeners of 'internallog', in order
  internalerror,  \* internalDispatcher listeners of 'internalerror', in order
  since,          \* per call, what the watcher has emitted since the call while
                  \* it waited: "nothing", "misses" (only records that do not
                  \* match its template) or "other" (an error, a matching record)
  config,         \* LogWatcher.config: what json, schema, fn, pattern, fieldNames are
  method,         \* LogWatcher.method: "regexp", "json" or "custom"
  logEntry,       \* the line handed to _parseLogEntry
  mLog,           \* the record handed to _matches
  mTemplate,      \* the template handed to _matches
  mResult,        \* what _matches gave: "none" before it is applied
  allowPatternViolations,  \* LogWatcher.opts.allowPatternViolations
  _started,       \* LogWatcher._started (the source is attached)
  _partialData,   \* LogWatcher._partialData
  _logs,          \* LogWatcher._logs: the records not emitted yet, [id, log]
  _retainedLogTimeoutId,  \* the retention timer: armed, its record, ticks left
  emitted,        \* the 'log' notifications of the watcher so far, in order
  emittedErrors,  \* the lines of its 'error' notifications so far, in order
  nParsed,        \* how many records were parsed (record ids count them)
  delivered,      \* how many characters the source has delivered
  sinceData,      \* ticks since the last chunk, up to RetainedLogTimeout
  lastLines,      \* what became of each line of the last chunk
  lastDataLines,  \* the complete non-blank lines that the last chunk brought
  timersPending,  \* how many retention timers are set and neither cleared nor fired
  source,         \* LogWatcher.source: "file" (a path) or "stream"
  polling,        \* LogWatcher.opts.polling
  truncations,    \* how many times the log file has been truncated
  fileSize,       \* the size of the log file, Absent while it does not exist
  watches,        \* the watches _startFileWatching and _startStreamListening
                  \* have created, each the closure of one call: its kind
                  \* ("poll", "dir", "stream"), its prevSize, whether it is live
                  \* (timer pending, handle open, listeners attached) and the
                  \* size of the file when it was created
  _fileWatcherTimeoutId,  \* the watch whose poll timer the field holds, 0 for null
  _fileWatcher,   \* the watch whose directory handle the field holds, 0 for null
  _stream,        \* the watch whose stream the field holds, 0 for null
  ranges,         \* the byte ranges handed to the parser since the last start
  ioFailures,     \* how many stat, read or stream failures have happened
  ioErrors,       \* how many of them were emitted as 'error'
  uncaught,       \* how many exceptions left a timer or watch callback
  reentered,      \* a listener has called stop() or start() from a notification
  logIds,         \* for a reader on its watcher: the ids of the records in logs
  parsedAtStart,  \* how many records the watcher had parsed at the last
                  \* LogReader.start()
  returnedLogs,   \* a caller holds what getLogs() returned
  returnedErrors, \* a caller holds what getErrors() returned
  sourceText,     \* for a text delivered in pieces: the whole text
  handed,         \* all the lines handed to _parseLogEntry so far, in order
  fsPc,           \* per path: where the createLogFS call for it is: "idle", "mkdir",
                  \* "mount", "rimraf" (its callback is yet to run) or "done"
  fsCb,           \* per path: the invocations of the completion callback, in order
  fsDir,          \* per path: the directory exists
  fsMounted       \* per path: a tmpfs is mounted on the directory

readerVars == <<logs, errors, listening, subscriptions, pc, logTemplate, strict, timeoutId, cbs,
                internallog, internalerror, since>>
fnVars == <<config, method, logEntry, mLog, mTemplate, mResult>>
watcherVars == <<allowPatternViolations, _started, _partialData, _logs,
                 _retainedLogTimeoutId, emitted, emittedErrors, nParsed, delivered,
                 sinceData, lastLines, lastDataLines, timersPending>>
fileVars == <<source, polling, truncations, fileSize, watches, _fileWatcherTimeoutId, _fileWatcher,
              _stream, ranges, ioFailures, ioErrors, uncaught, reentered>>
\* what the reader's operations leave alone
restartVars == <<logIds, parsedAtStart, returnedLogs, returnedErrors>>
lineVars == <<sourceText, handed>>
fsVars == <<fsPc, fsCb, fsDir, fsMounted>>
notReaderVars == <<fnVars, watcherVars, fileVars, restartVars, lineVars, fsVars>>
vars == <<readerVars, fnVars, watcherVars, fileVars, restartVars, lineVars, fsVars>>

\* ---------------------------------------------- LogWatcher: constructor
\* what a config can hold: json absent, truthy or falsy; a schema or none; fn
\* absent, a function or another value; pattern absent, a RegExp or another
\* value; fieldNames absent, an Array or another value
Configs ==
  [json : {"absent", "true", "false"}, schema : BOOLEAN,
   fn : {"absent", "function", "string"},
   pattern : {"absent", "regexp", "string"},
   fieldNames : {"absent", "array", "string"}]

\* the method the constructor chooses, or "throw" (Non supported method)
LogWatcher(cfg) ==
  IF cfg.json = "true" THEN "json"
  ELSE IF cfg.fn = "function" THEN "custom"
  ELSE IF cfg.pattern = "regexp" /\ cfg.fieldNames = "array" THEN "regexp"
  ELSE "throw"

NoConfig ==
  [json |-> "absent", schema |-> FALSE, fn |-> "absent", pattern |-> "absent",
   fieldNames |-> "absent"]
PatternConfig == [NoConfig EXCEPT !.pattern = "regexp", !.fieldNames = "array"]
JsonConfig == [NoConfig EXCEPT !.json = "true"]
JsonSchemaConfig == [NoConfig EXCEPT !.json = "true", !.schema = TRUE]
CustomConfig == [NoConfig EXCEPT !.fn = "function"]

\* ------------------------------------------------- LogWatcher: one entry
\* A text is a sequence of characters; Text gives the string it spells.
RECURSIVE Text(_)
Text(chars) == IF chars = <<>> THEN "" ELSE Head(chars) \o Text(Tail(chars))

\* String.prototype.trim
RECURSIVE TrimLeft(_)
TrimLeft(chars) ==
  IF chars # <<>> /\ Head(chars) = " " THEN TrimLeft(Tail(chars)) ELSE chars

RECURSIVE TrimRight(_)
TrimRight(chars) ==
  IF chars # <<>> /\ chars[Len(chars)] = " "
  THEN TrimRight(SubSeq(chars, 1, Len(chars) - 1)) ELSE chars

Trim(chars) == TrimRight(TrimLeft(chars))

\* config of the RegExp method: pattern /^(b)?(a+)$/ and its field names
FieldNames == <<"opt", "msg">>

\* String.prototype.match(config.pattern) without the whole match: the
\* captures, in order (undefined for a group that did not take part), or no
\* match
PatternExec(chars) ==
  LET rest == IF chars # <<>> /\ Head(chars) = "b" THEN Tail(chars) ELSE chars IN
  IF rest # <<>> /\ \A i \in 1..Len(rest) : rest[i] = "a"
  THEN [matched |-> TRUE,
        fieldsValues |-> << IF rest = chars THEN Undefined ELSE Str("b"), Str(Text(rest)) >>]
  ELSE [matched |-> FALSE, fieldsValues |-> <<>>]

\* JSON.parse on the documents used here
JSONParse(chars) ==
  LET text == Text(chars) IN
  CASE text = "{}" -> [ok |-> TRUE, log |-> Obj([f \in {} |-> Null])]
    [] text = "{\"msg\":\"a\"}" -> [ok |-> TRUE, log |-> RecA]
    [] text = "{\"msg\":null}" -> [ok |-> TRUE, log |-> Obj([f \in {"msg"} |-> Null])]
    [] text = "null" -> [ok |-> TRUE, log |-> NullObj]
    [] OTHER -> [ok |-> FALSE, log |-> NoLog]

\* config.fn of the custom method: an object, or null for an entry it cannot
\* parse; on the entry "xx" it throws
FnThrows(chars) == chars = <<"x", "x">>

Fn(chars) ==
  IF \E i \in 1..Len(chars) : chars[i] = "x" THEN NullObj
  ELSE Obj([f \in {"msg"} |-> Str(Text(chars))])

\* this._jsonValidate for the schema {type: 'object', required: ['msg'],
\* properties: {msg: {type: 'string'}}}
JsonValidate(log) ==
  /\ log.type = "object"
  /\ "msg" \in DOMAIN log.fields
  /\ log.fields["msg"].t = "string"

\* _parseLogEntry without the validation against config.schema
_parseLogEntry_NoSchema(m, logEntry_) ==
  CASE m = "regexp" ->
         LET r == PatternExec(Trim(logEntry_)) IN
         IF r.matched
         THEN [thrown |-> FALSE,
               log |-> Obj([f \in {FieldNames[i] : i \in 1..Len(r.fieldsValues)} |->
                             r.fieldsValues[CHOOSE i \in 1..Len(FieldNames) : FieldNames[i] = f]])]
         ELSE [thrown |-> TRUE, log |-> NoLog]
    [] m = "json" ->
         LET r == JSONParse(logEntry_) IN
         IF ~r.ok THEN [thrown |-> TRUE, log |-> NoLog]
         ELSE [thrown |-> FALSE, log |-> r.log]
    [] OTHER ->
         IF FnThrows(logEntry_) THEN [thrown |-> TRUE, log |-> NoLog]
         ELSE [thrown |-> FALSE, log |-> Fn(logEntry_)]

\* LogWatcher.prototype._parseLogEntry: the record, or thrown
_parseLogEntry(m, logEntry_) ==
  CASE m = "regexp" ->
         LET r == PatternExec(Trim(logEntry_)) IN
         IF r.matched
         THEN [thrown |-> FALSE,
               log |-> Obj([f \in {FieldNames[i] : i \in 1..Len(r.fieldsValues)} |->
                             r.fieldsValues[CHOOSE i \in 1..Len(FieldNames) : FieldNames[i] = f]])]
         ELSE [thrown |-> TRUE, log |-> NoLog]
    [] m = "json" ->
         LET r == JSONParse(logEntry_) IN
         IF ~r.ok THEN [thrown |-> TRUE, log |-> NoLog]
         ELSE IF config.schema /\ ~JsonValidate(r.log) THEN [thrown |-> TRUE, log |-> NoLog]
         ELSE [thrown |-> FALSE, log |-> r.log]
    [] OTHER ->
         IF FnThrows(logEntry_) THEN [thrown |-> TRUE, log |-> NoLog]
         ELSE [thrown |-> FALSE, log |-> Fn(logEntry_)]

\* -------------------------------------------- LogWatcher: _parseLogData
\* String.prototype.split(os.EOL): the pieces between the line terminators
RECURSIVE SplitFrom(_, _)
SplitFrom(chars, piece) ==
  IF chars = <<>> THEN <<piece>>
  ELSE IF Head(chars) = EOL THEN <<piece>> \o SplitFrom(Tail(chars), <<>>)
  ELSE SplitFrom(Tail(chars), Append(piece, Head(chars)))

Split(chars) == SplitFrom(chars, <<>>)

\* opts.retainedLogTimeout, in ticks of the clock
RetainedLogTimeout == 2

\* no timer / no record bound to it
NoRec == [id |-> 0, log |-> NoLog]
NoTimer == [armed |-> FALSE, retainedLog |-> NoRec, remaining |-> 0]

\* the line appended without the line terminator
AppendLine_NoEOL(rec, line) ==
  LET lastField == FieldNames[Len(FieldNames)]
      old == IF lastField \in DOMAIN rec.log.fields THEN rec.log.fields[lastField] ELSE Undefined
      new == Str(old.s \o Text(line))
  IN [rec EXCEPT !.log = Obj([f \in DOMAIN rec.log.fields \cup {lastField} |->
                               IF f = lastField THEN new ELSE rec.log.fields[f]])]

\* log[lastField] += os.EOL + line
AppendLine(rec, line) ==
  LET lastField == FieldNames[Len(FieldNames)]
      old == IF lastField \in DOMAIN rec.log.fields THEN rec.log.fields[lastField] ELSE Undefined
      new == Str(old.s \o EOL \o Text(line))
  IN [rec EXCEPT !.log = Obj([f \in DOMAIN rec.log.fields \cup {lastField} |->
                               IF f = lastField THEN new ELSE rec.log.fields[f]])]

\* what became of one line of a chunk: the record it was parsed into, the
\* record it was appended to, or the error emitted for it (ids, 0 for none),
\* the most recently parsed record in the buffer when it was read (and
\* whether it is of an earlier chunk), and the buffer before and after
LineEntry(line, parsedAs, appendedTo, nErrors, held, heldFromEarlier, before, after) ==
  [line |-> line, parsedAs |-> parsedAs, appendedTo |-> appendedTo, nErrors |-> nErrors,
   held |-> held, heldFromEarlier |-> heldFromEarlier, before |-> before, after |-> after]

\* the body of lines.forEach for one line, on the watcher state ws
ParseLine(line, m, allow, ws) ==
  IF Trim(line) = <<>> THEN ws
  ELSE LET r == _parseLogEntry(m, line)
           n == Len(ws.logs)
           held == IF n = 0 THEN 0 ELSE ws.logs[n].id
           earlier == n # 0 /\ held <= ws.parsedAtEntry
       IN IF r.thrown
          THEN IF m = "regexp" /\ allow /\ n # 0
               THEN LET after == [ws.logs EXCEPT ![n] = AppendLine(ws.logs[n], line)] IN
                    [ws EXCEPT !.logs = after,
                               !.lines = Append(@, LineEntry(line, 0, held, 0, held, earlier,
                                                             ws.logs, after))]
               ELSE [ws EXCEPT !.errs = Append(@, line),
                               !.lines = Append(@, LineEntry(line, 0, 0, 1, held, earlier,
                                                             ws.logs, ws.logs))]
          ELSE LET after == Append(ws.logs, [id |-> ws.nParsed + 1, log |-> r.log]) IN
               [ws EXCEPT !.logs = after,
                          !.nParsed = @ + 1,
                          !.lines = Append(@, LineEntry(line, ws.nParsed + 1, 0, 0, held, earlier,
                                                        ws.logs, after))]

\* lines.forEach given up at the first line that raises an 'error'
RECURSIVE ParseLines_StopAtError(_, _, _, _)
ParseLines_StopAtError(lines, m, allow, ws) ==
  IF lines = <<>> THEN ws
  ELSE LET next == ParseLine(Head(lines), m, allow, ws) IN
       IF Len(next.errs) > Len(ws.errs) THEN next
       ELSE ParseLines_StopAtError(Tail(lines), m, allow, next)

RECURSIVE ParseLines(_, _, _, _)
ParseLines(lines, m, allow, ws) ==
  IF lines = <<>> THEN ws
  ELSE ParseLines(Tail(lines), m, allow, ParseLine(Head(lines), m, allow, ws))

\* Array.prototype.slice(-1)
SliceLast(q) == IF q = <<>> THEN <<>> ELSE <<q[Len(q)]>>

\* self.emit('log', log) for each record of q, from _parseLogData ("data")
\* or from the retention timer ("timer")
Notify(q, by) == [i \in 1..Len(q) |-> [id |-> q[i].id, log |-> q[i].log, by |-> by]]

\* Array.prototype.slice(0, -1)
AllButLast(q) == IF q = <<>> THEN <<>> ELSE SubSeq(q, 1, Len(q) - 1)

\* the records emitted by the retention policy without arming anew a timer
\* that is still pending
EmitLogs_KeepTimer(m, ws) ==
  IF m = "regexp"
  THEN LET n == Len(ws.logs) IN
       [ws EXCEPT !.emitted = @ \o Notify(AllButLast(ws.logs), "data"),
                  !.pending = IF n = 0 THEN @ ELSE @ + 1,
                  !.timer = IF n = 0 THEN NoTimer
                            ELSE [armed |-> TRUE, retainedLog |-> ws.logs[n],
                                  remaining |-> IF ws.timerAtEntry.armed
                                                THEN ws.timerAtEntry.remaining
                                                ELSE RetainedLogTimeout],
                  !.logs = SliceLast(ws.logs)]
  ELSE [ws EXCEPT !.emitted = @ \o Notify(ws.logs, "data"), !.logs = <<>>]

\* the records emitted, the buffer emptied also in the RegExp method
EmitLogs_EmptyBuffer(m, ws) ==
  IF m = "regexp"
  THEN LET n == Len(ws.logs) IN
       [ws EXCEPT !.emitted = @ \o Notify(AllButLast(ws.logs), "data"),
                  !.pending = IF n = 0 THEN @ ELSE @ + 1,
                  !.timer = IF n = 0 THEN NoTimer
                            ELSE [armed |-> TRUE, retainedLog |-> ws.logs[n],
                                  remaining |-> RetainedLogTimeout],
                  !.logs = <<>>]
  ELSE [ws EXCEPT !.emitted = @ \o Notify(ws.logs, "data"), !.logs = <<>>]

\* the records emitted and the last one retained, the emitted ones left in
\* the buffer
EmitLogs_NoSlice(m, ws) ==
  IF m = "regexp"
  THEN LET n == Len(ws.logs) IN
       [ws EXCEPT !.emitted = @ \o Notify(AllButLast(ws.logs), "data"),
                  !.pending = IF n = 0 THEN @ ELSE @ + 1,
                  !.timer = IF n = 0 THEN NoTimer
                            ELSE [armed |-> TRUE, retainedLog |-> ws.logs[n],
                                  remaining |-> RetainedLogTimeout]]
  ELSE [ws EXCEPT !.emitted = @ \o Notify(ws.logs, "data"), !.logs = <<>>]

\* the retention policy of the RegExp method applied in every method
EmitLogs_RetainAlways(m, ws) ==
  LET n == Len(ws.logs) IN
  [ws EXCEPT !.emitted = @ \o Notify(AllButLast(ws.logs), "data"),
             !.pending = IF n = 0 THEN @ ELSE @ + 1,
             !.timer = IF n = 0 THEN NoTimer
                       ELSE [armed |-> TRUE, retainedLog |-> ws.logs[n],
                             remaining |-> RetainedLogTimeout],
             !.logs = SliceLast(ws.logs)]

\* "Emit the logs": in the RegExp method all but the last, which is retained
\* with a timer; in the other methods all
EmitLogs(m, ws) ==
  IF m = "regexp"
  THEN LET n == Len(ws.logs) IN
       [ws EXCEPT !.emitted = @ \o Notify(AllButLast(ws.logs), "data"),
                  !.pending = IF n = 0 THEN @ ELSE @ + 1,
                  !.timer = IF n = 0 THEN NoTimer
                            ELSE [armed |-> TRUE, retainedLog |-> ws.logs[n],
                                  remaining |-> RetainedLogTimeout],
                  !.logs = SliceLast(ws.logs)]
  ELSE [ws EXCEPT !.emitted = @ \o Notify(ws.logs, "data"), !.logs = <<>>]

\* _parseLogData without the clearTimeout of the retention timer
_parseLogData_NoClearTimeout(data, m, allow, ws0) ==
  LET all == ws0.partial \o data
      pieces == Split(all)
      complete == all[Len(all)] = EOL
      lines == IF complete THEN pieces ELSE SubSeq(pieces, 1, Len(pieces) - 1)
      ws1 == [ws0 EXCEPT
                         !.timerAtEntry = ws0.timer,
                         !.partial = IF complete THEN <<>> ELSE pieces[Len(pieces)],
                         !.parsedAtEntry = ws0.nParsed,
                         !.lines = <<>>]
  IN EmitLogs(m, ParseLines(lines, m, allow, ws1))

\* _parseLogData with the fragment of the chunk before not prefixed
_parseLogData_DropFragment(data, m, allow, ws0) ==
  LET all == data
      pieces == Split(all)
      complete == all[Len(all)] = EOL
      lines == IF complete THEN pieces ELSE SubSeq(pieces, 1, Len(pieces) - 1)
      ws1 == [ws0 EXCEPT !.timer = NoTimer,
                         !.pending = IF ws0.timer.armed THEN @ - 1 ELSE @,
                         !.timerAtEntry = ws0.timer,
                         !.partial = IF complete THEN <<>> ELSE pieces[Len(pieces)],
                         !.parsedAtEntry = ws0.nParsed,
                         !.lines = <<>>]
  IN EmitLogs(m, ParseLines(lines, m, allow, ws1))

\* LogWatcher.prototype._parseLogData(data) on the watcher state ws0
_parseLogData(data, m, allow, ws0) ==
  LET all == ws0.partial \o data
      pieces == Split(all)
      complete == all[Len(all)] = EOL
      lines == IF complete THEN pieces ELSE SubSeq(pieces, 1, Len(pieces) - 1)
      ws1 == [ws0 EXCEPT !.timer = NoTimer,
                         !.pending = IF ws0.timer.armed THEN @ - 1 ELSE @,
                         !.timerAtEntry = ws0.timer,
                         !.partial = IF complete THEN <<>> ELSE pieces[Len(pieces)],
                         !.parsedAtEntry = ws0.nParsed,
                         !.lines = <<>>]
  IN EmitLogs(m, ParseLines(lines, m, allow, ws1))

InSeq(x, q) == \E i \in 1..Len(q) : q[i] = x

\* the part of the state a listener or a timer callback works on
Handles == [timeoutId |-> timeoutId, cbs |-> cbs, internallog |-> internallog,
            internalerror |-> internalerror, threw |-> FALSE, logs |-> logs,
            errors |-> errors]

IsSubscribed(w, st) == InSeq(w, st.internallog) \/ InSeq(w, st.internalerror)

\* cb(...) of call w, invoked in state st
InvokeCb(w, kind, log, msg, st) ==
  [st EXCEPT !.cbs[w] =
     Append(@, [CbEntry(kind, log, msg, st.timeoutId[w], IsSubscribed(w, st))
                  EXCEPT !.inLogs = kind \in {"found", "unexpected"} => InSeq(log, st.logs)])]

\* clearTimeout(timeoutId) of call w
ClearTimeout(w, st) == [st EXCEPT !.timeoutId[w] = FALSE]

\* self.internalDispatcher.removeAllListeners(): every event, every waiter
RemoveAllListeners(st) == [st EXCEPT !.internallog = <<>>, !.internalerror = <<>>]

\* the loop over the stored logs: the first record that matches, or in
\* strict mode the first record when it does not match, or a TypeError
RECURSIVE ScanLogs(_, _, _, _)
ScanLogs(lgs, i, tmpl, isStrict) ==
  IF i > Len(lgs) THEN [out |-> "none", log |-> NoLog]
  ELSE LET m == _matches(lgs[i], tmpl) IN
       IF m = "TypeError" THEN [out |-> "throw", log |-> NoLog]
       ELSE IF m = "true" THEN [out |-> "found", log |-> lgs[i]]
       ELSE IF isStrict THEN [out |-> "unexpected", log |-> lgs[i]]
       ELSE ScanLogs(lgs, i + 1, tmpl, isStrict)

\* WaitSync with the stored records looked at before the stored errors
WaitSync_RecordsFirst(w, tmpl, isStrict, st0) ==
  LET st == [st0 EXCEPT !.timeoutId[w] = TRUE]
      scan == ScanLogs(logs, 1, tmpl, isStrict)
      subscribe == [st EXCEPT !.internallog = Append(@, w), !.internalerror = Append(@, w)]
  IN IF scan.out = "throw" THEN [st |-> st, pc |-> "threw"]
     ELSE IF scan.out = "unexpected"
          THEN [st |-> InvokeCb(w, "unexpected", scan.log, <<>>, st), pc |-> "returned"]
     ELSE IF scan.out = "found" /\ Truthy(scan.log)
          THEN [st |-> InvokeCb(w, "found", scan.log, <<>>, ClearTimeout(w, st)), pc |-> "returned"]
     ELSE IF errors # <<>>
     THEN [st |-> InvokeCb(w, "upstream", NoLog, AggregateMessage(errors), st), pc |-> "returned"]
     ELSE [st |-> subscribe, pc |-> "waiting"]

\* The synchronous part of waitForLogToExist for call w, on the handles st
\* (the timer is armed first): the resulting handles and how the call left
WaitSync(w, tmpl, isStrict, st0) ==
  LET st == [st0 EXCEPT !.timeoutId[w] = TRUE]
      scan == ScanLogs(logs, 1, tmpl, isStrict)
      subscribe == [st EXCEPT !.internallog = Append(@, w), !.internalerror = Append(@, w)]
  IN IF errors # <<>>
     THEN [st |-> InvokeCb(w, "upstream", NoLog, AggregateMessage(errors), st), pc |-> "returned"]
     ELSE IF scan.out = "throw" THEN [st |-> st, pc |-> "threw"]
     ELSE IF scan.out = "unexpected"
          THEN [st |-> InvokeCb(w, "unexpected", scan.log, <<>>, st), pc |-> "returned"]
     ELSE IF scan.out = "found" /\ Truthy(scan.log)
          THEN [st |-> InvokeCb(w, "found", scan.log, <<>>, ClearTimeout(w, st)), pc |-> "returned"]
     ELSE [st |-> subscribe, pc |-> "waiting"]

\* the listener with clearTimeout moved in front of the match test
OnInternalLog_ClearFirst(w, log, st) ==
  LET m == _matches(log, logTemplate[w])
      cleared == ClearTimeout(w, st) IN
  IF m = "TypeError" THEN [cleared EXCEPT !.threw = TRUE]
  ELSE IF m = "true" THEN InvokeCb(w, "found", log, <<>>, RemoveAllListeners(cleared))
  ELSE IF strict[w] THEN InvokeCb(w, "unexpected", log, <<>>, RemoveAllListeners(cleared))
  ELSE cleared

\* the listener without clearTimeout on a match
OnInternalLog_NoClear(w, log, st) ==
  LET m == _matches(log, logTemplate[w]) IN
  IF m = "TypeError" THEN [st EXCEPT !.threw = TRUE]
  ELSE IF m = "true" THEN InvokeCb(w, "found", log, <<>>, RemoveAllListeners(st))
  ELSE IF strict[w]
       THEN InvokeCb(w, "unexpected", log, <<>>, RemoveAllListeners(ClearTimeout(w, st)))
  ELSE st

\* the 'internallog' listener of call w
OnInternalLog(w, log, st) ==
  LET m == _matches(log, logTemplate[w]) IN
  IF m = "TypeError" THEN [st EXCEPT !.threw = TRUE]
  ELSE IF m = "true"
       THEN InvokeCb(w, "found", log, <<>>, RemoveAllListeners(ClearTimeout(w, st)))
  ELSE IF strict[w]
       THEN InvokeCb(w, "unexpected", log, <<>>, RemoveAllListeners(ClearTimeout(w, st)))
  ELSE st

\* the 'internalerror' listener of call w
OnInternalError(w, err, st) ==
  InvokeCb(w, "upstream", NoLog, ErrorText(err), RemoveAllListeners(ClearTimeout(w, st)))

\* the setTimeout callback of call w (the timer has fired)
OnTimeout(w, st) ==
  LET called == InvokeCb(w, "timeout", NoLog, <<>>,
                         RemoveAllListeners([st EXCEPT !.timeoutId[w] = FALSE]))
  IN [called EXCEPT !.cbs[w][Len(called.cbs[w])].errLogs = "self.logs"]

\* EventEmitter.emit: the listeners registered when emit starts are called in
\* order, also those removed meanwhile; an exception ends the emission
RECURSIVE EmitInternalLog(_, _, _)
EmitInternalLog(ls, log, st) ==
  IF ls = <<>> \/ st.threw THEN st
  ELSE EmitInternalLog(Tail(ls), log, OnInternalLog(Head(ls), log, st))

RECURSIVE EmitInternalError(_, _, _)
EmitInternalError(ls, err, st) ==
  IF ls = <<>> THEN st
  ELSE EmitInternalError(Tail(ls), err, OnInternalError(Head(ls), err, st))

\* the reader's listener of the watcher's 'log': self.logs.push(log), then
\* internalDispatcher.emit('internallog', log)
OnWatcherLog(log, st) ==
  EmitInternalLog(st.internallog, log, [st EXCEPT !.logs = Append(@, log)])

\* the reader's listener of the watcher's 'error'
OnWatcherError(err, st) ==
  EmitInternalError(st.internalerror, err, [st EXCEPT !.errors = Append(@, err)])

\* logWatcher.emit('log', log): every listener the reader has registered runs
RECURSIVE EmitLog(_, _, _)
EmitLog(n, log, st) ==
  IF n = 0 \/ st.threw THEN st ELSE EmitLog(n - 1, log, OnWatcherLog(log, st))

RECURSIVE EmitError(_, _, _)
EmitError(n, err, st) ==
  IF n = 0 THEN st ELSE EmitError(n - 1, err, OnWatcherError(err, st))

\* the reader's listeners on its watcher
NoSubscriptions == [log |-> 0, error |-> 0]

\* logWatcher.removeAllListeners() in LogReader.prototype.stop
StopSubscriptions(subs) == NoSubscriptions

\* start() without its call of stop()
StartSubscriptions_NoStop(subs) == [log |-> subs.log + 1, error |-> subs.error + 1]

\* LogReader.prototype.start: self.stop(), then one logWatcher.on('log', ...)
\* and one logWatcher.on('error', ...)
StartSubscriptions(subs) ==
  LET stopped == StopSubscriptions(subs)
  IN [log |-> stopped.log + 1, error |-> stopped.error + 1]

SetHandles(st) ==
  /\ timeoutId' = st.timeoutId
  /\ cbs' = st.cbs
  /\ internallog' = st.internallog
  /\ internalerror' = st.internalerror

\* calls that are waiting for a future notification and not completed yet
Pending(w) == pc[w] = "waiting" /\ cbs[w] = <<>>

\* what call w has seen emitted since it was made, after one more
\* notification of the given kind
Note(kinds) ==
  [w \in Waiters |-> IF Pending(w) /\ since[w] # "other" THEN kinds[w] ELSE since[w]]

\* ---------------------------------------------------------------- actions
ReaderInit ==
  /\ logs = <<>>
  /\ errors = <<>>
  /\ listening = FALSE
  /\ subscriptions = NoSubscriptions
  /\ pc = [w \in Waiters |-> "idle"]
  /\ logTemplate = [w \in Waiters |-> NullObj]
  /\ strict = [w \in Waiters |-> FALSE]
  /\ timeoutId = [w \in Waiters |-> FALSE]
  /\ cbs = [w \in Waiters |-> <<>>]
  /\ internallog = <<>>
  /\ internalerror = <<>>
  /\ since = [w \in Waiters |-> "nothing"]

\* no entry and no record under test
FnIdle ==
  /\ config = PatternConfig
  /\ method = "regexp"
  /\ logEntry = <<>>
  /\ mLog = NoLog
  /\ mTemplate = NoLog
  /\ mResult = "none"

\* new LogWatcher(source, config, opts) without autoStart
WatcherInit ==
  /\ _started = FALSE
  /\ _partialData = <<>>
  /\ _logs = <<>>
  /\ _retainedLogTimeoutId = NoTimer
  /\ emitted = <<>>
  /\ emittedErrors = <<>>
  /\ nParsed = 0
  /\ delivered = 0
  /\ sinceData = 0
  /\ lastLines = <<>>
  /\ lastDataLines = <<>>
  /\ timersPending = 0

\* no source attached yet
Absent == -1

\* no text is being delivered in pieces
LineIdle == sourceText = <<>> /\ handed = <<>>

\* no createLogFS call has been made
FsIdle ==
  /\ fsPc = [p \in 1..NumPaths |-> "idle"]
  /\ fsCb = [p \in 1..NumPaths |-> <<>>]
  /\ fsDir = [p \in 1..NumPaths |-> FALSE]
  /\ fsMounted = [p \in 1..NumPaths |-> FALSE]

FileIdle ==
  /\ source = "file"
  /\ polling = FALSE
  /\ truncations = 0
  /\ fileSize = Absent
  /\ watches = <<>>
  /\ _fileWatcherTimeoutId = 0
  /\ _fileWatcher = 0
  /\ _stream = 0
  /\ ranges = <<>>
  /\ ioFailures = 0
  /\ ioErrors = 0
  /\ uncaught = 0
  /\ reentered = FALSE
  /\ logIds = <<>>
  /\ parsedAtStart = 0
  /\ returnedLogs = FALSE
  /\ returnedErrors = FALSE

Init == ReaderInit /\ FnIdle /\ allowPatternViolations = FALSE /\ WatcherInit /\ FileIdle /\ LineIdle /\ FsIdle

\* LogReader.prototype.start
Start ==
  /\ logs' = <<>>
  /\ errors' = <<>>
  /\ listening' = TRUE
  /\ subscriptions' = StartSubscriptions(subscriptions)
  /\ UNCHANGED <<pc, logTemplate, strict, timeoutId, cbs, internallog, internalerror, since>>
  /\ UNCHANGED notReaderVars

\* LogReader.prototype.stop
Stop ==
  /\ listening' = FALSE
  /\ subscriptions' = StopSubscriptions(subscriptions)
  /\ UNCHANGED <<logs, errors, pc, logTemplate, strict, timeoutId, cbs,
                 internallog, internalerror, since>>
  /\ UNCHANGED notReaderVars

\* LogReader.prototype.waitForLogToExist(tmpl, {strict: isStrict}, cb); the
\* calls are numbered in the order they are made
WaitForLogToExist(w, tmpl, isStrict) ==
  /\ pc[w] = "idle"
  /\ \A v \in Waiters : v < w => pc[v] # "idle"
  /\ LET r == WaitSync(w, tmpl, isStrict, Handles) IN
       /\ SetHandles(r.st)
       /\ pc' = [pc EXCEPT ![w] = r.pc]
  /\ logTemplate' = [logTemplate EXCEPT ![w] = tmpl]
  /\ strict' = [strict EXCEPT ![w] = isStrict]
  /\ UNCHANGED <<logs, errors, listening, subscriptions, since>>
  /\ UNCHANGED notReaderVars

\* the watcher emits 'log': the reader's listener stores and dispatches it
WatcherLog(log) ==
  /\ listening
  /\ Len(logs) < MaxLogs
  /\ LET st == EmitLog(subscriptions.log, log, Handles) IN
       /\ logs' = st.logs
       /\ SetHandles(st)
  /\ since' = Note([w \in Waiters |->
                     IF _matches(log, logTemplate[w]) = "true" THEN "other" ELSE "misses"])
  /\ UNCHANGED <<errors, listening, subscriptions, pc, logTemplate, strict>>
  /\ UNCHANGED notReaderVars

\* the watcher emits 'error': the reader's listener stores and dispatches it
WatcherError(err) ==
  /\ listening
  /\ Len(errors) < MaxErrors
  /\ LET st == EmitError(subscriptions.error, err, Handles) IN
       /\ errors' = st.errors
       /\ SetHandles(st)
  /\ since' = Note([w \in Waiters |-> "other"])
  /\ UNCHANGED <<logs, listening, subscriptions, pc, logTemplate, strict>>
  /\ UNCHANGED notReaderVars

\* the timer of call w expires
Timeout(w) ==
  /\ timeoutId[w]
  /\ SetHandles(OnTimeout(w, Handles))
  /\ UNCHANGED <<logs, errors, listening, subscriptions, pc, logTemplate, strict, since>>
  /\ UNCHANGED notReaderVars

Next ==
  \/ Start
  \/ Stop
  \/ \E w \in Waiters, tmpl \in Templates, isStrict \in BOOLEAN :
        WaitForLogToExist(w, tmpl, isStrict)
  \/ \E log \in Records : WatcherLog(log)
  \/ \E err \in Errs : WatcherError(err)
  \/ \E w \in Waiters : Timeout(w)

Spec == Init /\ [][Next]_vars

\* an armed timer eventually fires (timers are bounded wall-clock durations)
FairSpec == Spec /\ \A w \in Waiters : WF_vars(Timeout(w))

\* ------------------------------------------- _matches on bounded inputs
\* field values of a record: strings, numbers, null, and undefined (a
\* capture group that did not take part); expected values of a template:
\* literals, regular expressions, undefined
MatchFields == {"msg", "n"}
RecordValues == {Str("a"), Str("3"), Num("3"), Null, Undefined}
ExpectedValues == {Str("a"), Num("3"), Null, RegExp("/a/"), RegExp("/\\d/"), Undefined}

UndefinedObj == [type |-> "undefined", fields |-> [x \in {} |-> Null]]

MatchRecords ==
  {Obj(f) : f \in UNION {[S -> RecordValues] : S \in SUBSET MatchFields}} \cup {NullObj}
MatchTemplates ==
  {Obj(f) : f \in UNION {[S -> ExpectedValues] : S \in SUBSET MatchFields}}
    \cup {NullObj, UndefinedObj}

MatchInit ==
  /\ ReaderInit
  /\ allowPatternViolations = FALSE /\ WatcherInit /\ FileIdle /\ LineIdle /\ FsIdle
  /\ config = PatternConfig
  /\ method = "regexp"
  /\ logEntry = <<>>
  /\ mLog \in MatchRecords
  /\ mTemplate \in MatchTemplates
  /\ mResult = "none"

\* self._matches(log, logTemplate)
Matches ==
  /\ mResult = "none"
  /\ mResult' = _matches(mLog, mTemplate)
  /\ UNCHANGED <<readerVars, lineVars, fsVars, watcherVars, fileVars, restartVars, config, method, logEntry, mLog, mTemplate>>

MatchNext == Matches

MatchSpec == MatchInit /\ [][MatchNext]_vars

\* ------------------------------- _parseLogEntry, then _matches on its record
Methods == {"regexp", "json", "custom"}

LogEntries ==
  { <<"a">>, <<"a", "a">>, <<"b", "a">>, <<" ", "a">>, <<"x">>, <<"b">>,
    <<"{", "}">>, <<"{", "\"msg\":\"a\"", "}">>, <<"{", "\"msg\":null", "}">>, <<"null">> }

\* templates that name one field
NamingTemplates ==
  {Obj([f \in {n} |-> v]) : n \in {"opt", "msg"},
                            v \in {Undefined, Str("a"), Str("b"), RegExp("/b/")}}

ParseInit ==
  /\ ReaderInit
  /\ allowPatternViolations = FALSE /\ WatcherInit /\ FileIdle /\ LineIdle /\ FsIdle
  /\ config \in {PatternConfig, JsonConfig, JsonSchemaConfig, CustomConfig}
  /\ method = LogWatcher(config)
  /\ logEntry \in LogEntries
  /\ mLog = NoLog
  /\ mTemplate = NoLog
  /\ mResult = "none"

\* self._parseLogEntry(line)
ParseLogEntry ==
  /\ mLog = NoLog /\ mResult = "none"
  /\ LET r == _parseLogEntry(method, logEntry) IN
       IF r.thrown THEN mResult' = "thrown" /\ mLog' = mLog
       ELSE mLog' = r.log /\ mResult' = mResult
  /\ UNCHANGED <<readerVars, lineVars, fsVars, watcherVars, fileVars, restartVars, config, method, logEntry, mTemplate>>

\* _matches of the parsed record against the template tmpl
MatchParsed(tmpl) ==
  /\ mLog # NoLog /\ mResult = "none"
  /\ mTemplate' = tmpl
  /\ mResult' = _matches(mLog, tmpl)
  /\ UNCHANGED <<readerVars, lineVars, fsVars, watcherVars, fileVars, restartVars, config, method, logEntry, mLog>>

\* _matches of the parsed record against the template made of the record's
\* own fields and values
MatchOwn ==
  /\ mLog # NoLog /\ mResult = "none"
  /\ mTemplate' = mLog
  /\ mResult' = _matches(mLog, mLog)
  /\ UNCHANGED <<readerVars, lineVars, fsVars, watcherVars, fileVars, restartVars, config, method, logEntry, mLog>>

ParseNext ==
  \/ ParseLogEntry
  \/ MatchOwn
  \/ \E tmpl \in NamingTemplates : MatchParsed(tmpl)

ParseSpec == ParseInit /\ [][ParseNext]_vars

\* ------------------------------------------------------ the LogWatcher
MaxBytes == 6
MaxChunk == 3

\* the characters the source writes, and the chunks it delivers them in
Alphabet(m) ==
  IF m = "json" THEN {"{", "}", "{\"msg\":\"a\"}", EOL} ELSE {"a", "x", EOL}
Chunks(m) == UNION {[1..n -> Alphabet(m)] : n \in 1..MaxChunk}

\* the complete, non-blank lines that a chunk brings to the parser
NonBlank(line) == Trim(line) # <<>>

DataLines(data) ==
  LET all == _partialData \o data
      pieces == Split(all)
  IN SelectSeq(IF all[Len(all)] = EOL THEN pieces ELSE SubSeq(pieces, 1, Len(pieces) - 1), NonBlank)

\* the watcher's own state, as _parseLogData works on it
WatcherState ==
  [partial |-> _partialData, logs |-> _logs, timer |-> _retainedLogTimeoutId,
   emitted |-> emitted, errs |-> emittedErrors, nParsed |-> nParsed,
   lines |-> <<>>, parsedAtEntry |-> nParsed, timerAtEntry |-> _retainedLogTimeoutId,
   pending |-> timersPending]

WatchInit ==
  /\ ReaderInit
  /\ config \in {PatternConfig, CustomConfig, JsonConfig, JsonSchemaConfig}
  /\ method = LogWatcher(config)
  /\ allowPatternViolations \in BOOLEAN
  /\ allowPatternViolations => method = "regexp"
  /\ logEntry = <<>> /\ mLog = NoLog /\ mTemplate = NoLog /\ mResult = "none"
  /\ WatcherInit /\ FileIdle /\ LineIdle /\ FsIdle

\* LogWatcher.prototype.start
WatcherStart ==
  /\ ~_started
  /\ _started' = TRUE
  /\ UNCHANGED <<readerVars, lineVars, fsVars, fileVars, restartVars, fnVars, allowPatternViolations, _partialData, _logs,
                 _retainedLogTimeoutId, emitted, emittedErrors, nParsed, delivered,
                 sinceData, lastLines, lastDataLines, timersPending>>

\* LogWatcher.prototype.stop
WatcherStop ==
  /\ _started
  /\ _started' = FALSE
  /\ UNCHANGED <<readerVars, lineVars, fsVars, fileVars, restartVars, fnVars, allowPatternViolations, _partialData, _logs,
                 _retainedLogTimeoutId, emitted, emittedErrors, nParsed, delivered,
                 sinceData, lastLines, lastDataLines, timersPending>>

\* the attached source delivers a chunk: _onData, or the read of the new
\* bytes of the file, and _parseLogData
Chunk(data) ==
  /\ _started
  /\ delivered + Len(data) <= MaxBytes
  /\ delivered' = delivered + Len(data)
  /\ sinceData' = 0
  /\ LET ws == _parseLogData(data, method, allowPatternViolations, WatcherState) IN
       /\ _partialData' = ws.partial
       /\ _logs' = ws.logs
       /\ _retainedLogTimeoutId' = ws.timer
       /\ emitted' = ws.emitted
       /\ emittedErrors' = ws.errs
       /\ nParsed' = ws.nParsed
       /\ lastLines' = ws.lines
       /\ lastDataLines' = DataLines(data)
       /\ timersPending' = ws.pending
  /\ UNCHANGED <<readerVars, lineVars, fsVars, fileVars, restartVars, fnVars, allowPatternViolations, _started>>

\* one tick of the clock while the retention timer runs
Tick ==
  /\ _retainedLogTimeoutId.armed
  /\ _retainedLogTimeoutId.remaining > 0
  /\ _retainedLogTimeoutId' = [_retainedLogTimeoutId EXCEPT !.remaining = @ - 1]
  /\ sinceData' = IF sinceData < RetainedLogTimeout THEN sinceData + 1 ELSE sinceData
  /\ UNCHANGED <<readerVars, lineVars, fsVars, fileVars, restartVars, fnVars, allowPatternViolations, _started, _partialData, _logs,
                 emitted, emittedErrors, nParsed, delivered, lastLines, lastDataLines, timersPending>>

\* the retention timer's callback without emptying the buffer
RetainedLogTimeoutFired_KeepBuffer ==
  /\ _retainedLogTimeoutId.armed
  /\ _retainedLogTimeoutId.remaining = 0
  /\ emitted' = emitted \o Notify(<<_retainedLogTimeoutId.retainedLog>>, "timer")
  /\ _logs' = _logs
  /\ timersPending' = timersPending - 1
  /\ _retainedLogTimeoutId' = NoTimer
  /\ UNCHANGED <<readerVars, lineVars, fsVars, fileVars, restartVars, fnVars, allowPatternViolations, _started, _partialData,
                 emittedErrors, nParsed, delivered, sinceData, lastLines, lastDataLines>>

\* the retention timer's callback: emit the retained record, empty the buffer
RetainedLogTimeoutFired ==
  /\ _retainedLogTimeoutId.armed
  /\ _retainedLogTimeoutId.remaining = 0
  /\ emitted' = emitted \o Notify(<<_retainedLogTimeoutId.retainedLog>>, "timer")
  /\ _logs' = <<>>
  /\ _retainedLogTimeoutId' = NoTimer
  /\ timersPending' = timersPending - 1
  /\ UNCHANGED <<readerVars, lineVars, fsVars, fileVars, restartVars, fnVars, allowPatternViolations, _started, _partialData,
                 emittedErrors, nParsed, delivered, sinceData, lastLines, lastDataLines>>

WatchNext ==
  \/ WatcherStart
  \/ WatcherStop
  \/ \E data \in Chunks(method) : Chunk(data)
  \/ Tick
  \/ RetainedLogTimeoutFired

WatchSpec == WatchInit /\ [][WatchNext]_vars

\* time passes and a due timer fires
FairWatchSpec == WatchSpec /\ WF_vars(Tick) /\ WF_vars(RetainedLogTimeoutFired)

\* -------------------------------------------- construction of a watcher
ConstructInit ==
  /\ ReaderInit
  /\ allowPatternViolations = FALSE /\ WatcherInit /\ FileIdle /\ LineIdle /\ FsIdle
  /\ config \in Configs
  /\ method = "none"
  /\ logEntry = <<>> /\ mLog = NoLog /\ mTemplate = NoLog /\ mResult = "none"

\* new LogWatcher(source, config)
Construct ==
  /\ method = "none"
  /\ method' = LogWatcher(config)
  /\ UNCHANGED <<readerVars, lineVars, fsVars, watcherVars, fileVars, restartVars, config, logEntry, mLog, mTemplate, mResult>>

ConstructNext == Construct

ConstructSpec == ConstructInit /\ [][ConstructNext]_vars

\* ------------------------------------------- the source of a watcher
\* A watcher of a file that is created and grows, or of a stream. Timers and
\* callbacks run to completion: a poll tick or a change notification is one
\* step, the listeners of the notifications it emits included.
MaxSize == 3
MaxWatches == 2
MaxFailures == 1
MaxTruncations == 1

\* the initial prevSize with the size of the file ignored
InitialPrevSize_Zero(size) == 0

\* prevSize = _getFileSize(logFilePath) || 0
InitialPrevSize(size) == IF size = Absent THEN 0 ELSE size

\* the range read counted from the start of the file
ReadRange_FromZero(prevSize_, currSize_) ==
  IF prevSize_ >= currSize_ THEN <<>> ELSE <<[from |-> 0, to |-> currSize_]>>

\* _readLogFile(prevSize_, currSize_): the range read and handed to the parser
ReadRange(prevSize_, currSize_) ==
  IF prevSize_ >= currSize_ THEN <<>> ELSE <<[from |-> prevSize_, to |-> currSize_]>>

\* the fields of the watcher that start and stop work on
FileState ==
  [watches |-> watches, timeoutId |-> _fileWatcherTimeoutId, fileWatcher |-> _fileWatcher,
   stream |-> _stream, started |-> _started, ranges |-> ranges, reentered |-> reentered]

\* clearTimeout, FSWatcher.close, removeListener on the watch i
Release(ws, i) == IF i = 0 THEN ws ELSE [ws EXCEPT ![i].live = FALSE]

\* LogWatcher.prototype.stop
StopWatching(st) ==
  [st EXCEPT !.watches = Release(Release(Release(@, st.fileWatcher), st.timeoutId), st.stream),
             !.fileWatcher = 0,
             !.timeoutId = 0,
             !.stream = 0,
             !.started = FALSE]

WatchKind == IF source = "stream" THEN "stream" ELSE IF polling THEN "poll" ELSE "dir"

\* LogWatcher.prototype.start, the file being of the given size
StartWatching(st, size) ==
  IF st.started THEN st
  ELSE LET i == Len(st.watches) + 1
           w == [kind |-> WatchKind,
                 prevSize |-> IF source = "stream" THEN 0 ELSE InitialPrevSize(size),
                 live |-> TRUE,
                 sizeAtStart |-> size]
       IN [st EXCEPT !.watches = Append(@, w),
                     !.timeoutId = IF WatchKind = "poll" THEN i ELSE @,
                     !.fileWatcher = IF WatchKind = "dir" THEN i ELSE @,
                     !.stream = IF WatchKind = "stream" THEN i ELSE @,
                     !.started = TRUE,
                     !.ranges = <<>>]

\* what a listener of 'log' or 'error' does with the watcher
ListenerActs == {"none", "stop", "start", "stop-start"}

Listener(act, st, size) ==
  CASE act = "none" -> st
    [] act = "stop" -> [StopWatching(st) EXCEPT !.reentered = TRUE]
    [] act = "start" -> [StartWatching(st, size) EXCEPT !.reentered = TRUE]
    [] OTHER -> [StartWatching(StopWatching(st), size) EXCEPT !.reentered = TRUE]

\* there is room for the watch a start would create
CanStart(act, st) ==
  \/ act \in {"none", "stop"}
  \/ act = "start" /\ st.started
  \/ Len(st.watches) < MaxWatches

SetFileState(st) ==
  /\ watches' = st.watches
  /\ _fileWatcherTimeoutId' = st.timeoutId
  /\ _fileWatcher' = st.fileWatcher
  /\ _stream' = st.stream
  /\ _started' = st.started
  /\ ranges' = st.ranges
  /\ reentered' = st.reentered

\* the watcher's fields that the source's steps leave alone
parserVars == <<allowPatternViolations, _partialData, _logs, _retainedLogTimeoutId,
                emitted, emittedErrors, nParsed, delivered, sinceData, lastLines, lastDataLines, timersPending>>

FileInit ==
  /\ ReaderInit /\ FnIdle /\ allowPatternViolations = FALSE /\ WatcherInit /\ LineIdle /\ FsIdle
  /\ source \in {"file", "stream"}
  /\ polling \in BOOLEAN
  /\ source = "stream" => ~polling
  /\ truncations = 0
  /\ fileSize \in IF source = "stream" THEN {Absent} ELSE {Absent, 0, 1}
  /\ watches = <<>>
  /\ _fileWatcherTimeoutId = 0
  /\ _fileWatcher = 0
  /\ _stream = 0
  /\ ranges = <<>>
  /\ ioFailures = 0
  /\ ioErrors = 0
  /\ uncaught = 0
  /\ reentered = FALSE
  /\ logIds = <<>>
  /\ parsedAtStart = 0
  /\ returnedLogs = FALSE
  /\ returnedErrors = FALSE

\* LogWatcher.prototype.start, called from outside any notification
FileStart ==
  /\ CanStart("start", FileState)
  /\ SetFileState(StartWatching(FileState, fileSize))
  /\ UNCHANGED <<readerVars, lineVars, fsVars, restartVars, fnVars, parserVars, source, polling, truncations, fileSize, ioFailures,
                 ioErrors, uncaught>>

\* LogWatcher.prototype.stop, called from outside any notification
FileStop ==
  /\ SetFileState(StopWatching(FileState))
  /\ UNCHANGED <<readerVars, lineVars, fsVars, restartVars, fnVars, parserVars, source, polling, truncations, fileSize, ioFailures,
                 ioErrors, uncaught>>

\* the file is created, or bytes are appended to it
Grow(size) ==
  /\ source = "file"
  /\ size > fileSize
  /\ fileSize' = size
  /\ UNCHANGED <<readerVars, lineVars, fsVars, restartVars, fnVars, watcherVars, source, polling, truncations, watches,
                 _fileWatcherTimeoutId, _fileWatcher, _stream, ranges, ioFailures,
                 ioErrors, uncaught, reentered>>

\* the file is truncated to a smaller size; what is written to it afterwards
\* is new content from that size on
Truncate(size) ==
  /\ source = "file"
  /\ fileSize # Absent
  /\ size < fileSize
  /\ truncations < MaxTruncations
  /\ fileSize' = size
  /\ truncations' = truncations + 1
  /\ UNCHANGED <<readerVars, lineVars, fsVars, restartVars, fnVars, watcherVars, source, polling,
                 watches, _fileWatcherTimeoutId, _fileWatcher, _stream, ranges, ioFailures,
                 ioErrors, uncaught, reentered>>

\* the failures of fs.statSync and of fs.openSync/readSync other than ENOENT
Failures == {"none", "stat", "read"}

CanFail(fail, prevSize_) ==
  /\ fail # "none" => ioFailures < MaxFailures
  /\ fail = "read" => (fileSize # Absent /\ prevSize_ < fileSize)

\* the timer of the poll loop i fires: _pollFile
PollTick(i, fail, act) ==
  /\ watches[i].kind = "poll" /\ watches[i].live
  /\ CanFail(fail, watches[i].prevSize)
  /\ IF fail # "none"
     THEN \* the exception leaves _pollFile before the next poll is scheduled
          /\ watches' = [watches EXCEPT ![i].live = FALSE]
          /\ ioFailures' = ioFailures + 1
          /\ uncaught' = uncaught + 1
          /\ UNCHANGED <<_fileWatcherTimeoutId, _fileWatcher, _stream, _started, ranges,
                         reentered, ioErrors>>
     ELSE LET read == IF fileSize = Absent THEN <<>>
                      ELSE ReadRange(watches[i].prevSize, fileSize)
              fired == [FileState EXCEPT !.watches[i].live = FALSE,
                                         !.ranges = @ \o read]
              after == Listener(act, fired, fileSize)
          IN /\ act # "none" => read # <<>>
             /\ CanStart(act, fired)
             /\ SetFileState([after EXCEPT
                   !.watches[i].prevSize = IF fileSize = Absent THEN @ ELSE fileSize,
                   !.watches[i].live = TRUE,
                   !.timeoutId = i])
             /\ UNCHANGED <<ioFailures, ioErrors, uncaught>>
  /\ UNCHANGED <<readerVars, lineVars, fsVars, restartVars, fnVars, parserVars, source, polling, truncations, fileSize>>

\* the directory watch i reports a change, whatever it is
DirNotify(i, fail, act) ==
  /\ watches[i].kind = "dir" /\ watches[i].live
  /\ CanFail(fail, watches[i].prevSize)
  /\ IF fail # "none"
     THEN /\ ioFailures' = ioFailures + 1
          /\ uncaught' = uncaught + 1
          /\ UNCHANGED <<watches, _fileWatcherTimeoutId, _fileWatcher, _stream, _started,
                         ranges, reentered, ioErrors>>
     ELSE LET read == IF fileSize = Absent THEN <<>>
                      ELSE ReadRange(watches[i].prevSize, fileSize)
              after == Listener(act, [FileState EXCEPT !.ranges = @ \o read], fileSize)
          IN /\ act # "none" => read # <<>>
             /\ CanStart(act, FileState)
             /\ SetFileState([after EXCEPT
                   !.watches[i].prevSize = IF fileSize = Absent THEN @ ELSE fileSize])
             /\ UNCHANGED <<ioFailures, ioErrors, uncaught>>
  /\ UNCHANGED <<readerVars, lineVars, fsVars, restartVars, fnVars, parserVars, source, polling, truncations, fileSize>>

\* the stream emits 'data': _onData
StreamData(i, act) ==
  /\ watches[i].kind = "stream" /\ watches[i].live
  /\ CanStart(act, FileState)
  /\ SetFileState(Listener(act, FileState, fileSize))
  /\ UNCHANGED <<readerVars, lineVars, fsVars, restartVars, fnVars, parserVars, source, polling, truncations, fileSize, ioFailures,
                 ioErrors, uncaught>>

\* the stream emits 'error': _onError
StreamError(i) ==
  /\ watches[i].kind = "stream" /\ watches[i].live
  /\ ioFailures < MaxFailures
  /\ ioFailures' = ioFailures + 1
  /\ ioErrors' = ioErrors + 1
  /\ UNCHANGED <<readerVars, lineVars, fsVars, restartVars, fnVars, watcherVars, source, polling, truncations, fileSize, watches,
                 _fileWatcherTimeoutId, _fileWatcher, _stream, ranges, uncaught, reentered>>

FileNext ==
  \/ FileStart
  \/ FileStop
  \/ \E size \in 0..MaxSize : Grow(size)
  \/ \E i \in 1..Len(watches), fail \in Failures, act \in ListenerActs : PollTick(i, fail, act)
  \/ \E i \in 1..Len(watches), fail \in Failures, act \in ListenerActs : DirNotify(i, fail, act)
  \/ \E i \in 1..Len(watches), act \in ListenerActs : StreamData(i, act)
  \/ \E i \in 1..Len(watches) : StreamError(i)

FileSpec == FileInit /\ [][FileNext]_vars

\* The same watcher on a log file that may also be truncated (rotated in
\* place) while it is watched.
TruncNext ==
  \/ FileNext
  \/ \E size \in 0..MaxSize : Truncate(size)

TruncSpec == FileInit /\ [][TruncNext]_vars

\* ------------------------------------------- a reader on its watcher
\* LogReader.start and stop on a watcher that parses the chunks of its source:
\* the reader's listeners append what the watcher emits to logs and errors.
ReaderInit2 ==
  /\ ReaderInit /\ FileIdle /\ LineIdle /\ FsIdle
  /\ config \in {PatternConfig, CustomConfig}
  /\ method = LogWatcher(config)
  /\ allowPatternViolations \in BOOLEAN
  /\ allowPatternViolations => method = "regexp"
  /\ logEntry = <<>> /\ mLog = NoLog /\ mTemplate = NoLog /\ mResult = "none"
  /\ WatcherInit

\* the reader's 'log' and 'error' listeners on the notifications from the
\* n-th and the e-th on
Listen(newEmitted, n, newErrors, e) ==
  /\ logs' = IF listening
             THEN logs \o [i \in 1..(Len(newEmitted) - n) |-> newEmitted[n + i].log]
             ELSE logs
  /\ logIds' = IF listening
               THEN logIds \o [i \in 1..(Len(newEmitted) - n) |-> newEmitted[n + i].id]
               ELSE logIds
  /\ errors' = IF listening
               THEN errors \o [i \in 1..(Len(newErrors) - e) |-> ErrParse]
               ELSE errors

\* LogReader.prototype.start
ReaderStart ==
  /\ logs' = <<>>
  /\ errors' = <<>>
  /\ logIds' = <<>>
  /\ listening' = TRUE
  /\ subscriptions' = StartSubscriptions(subscriptions)
  /\ _started' = TRUE
  /\ parsedAtStart' = nParsed
  /\ UNCHANGED <<pc, logTemplate, strict, timeoutId, cbs, internallog, internalerror, since,
                 returnedLogs, returnedErrors>>
  /\ UNCHANGED <<fnVars, lineVars, fsVars, fileVars, parserVars>>

\* LogReader.prototype.stop
ReaderStop ==
  /\ listening
  /\ listening' = FALSE
  /\ subscriptions' = StopSubscriptions(subscriptions)
  /\ _started' = FALSE
  /\ UNCHANGED <<logs, errors, pc, logTemplate, strict, timeoutId, cbs, internallog,
                 internalerror, since>>
  /\ UNCHANGED <<fnVars, lineVars, fsVars, fileVars, restartVars, parserVars>>

\* the source of the started watcher delivers a chunk
ReaderChunk(data) ==
  /\ _started
  /\ delivered + Len(data) <= MaxBytes
  /\ delivered' = delivered + Len(data)
  /\ sinceData' = 0
  /\ LET ws == _parseLogData(data, method, allowPatternViolations, WatcherState) IN
       /\ _partialData' = ws.partial
       /\ _logs' = ws.logs
       /\ _retainedLogTimeoutId' = ws.timer
       /\ emitted' = ws.emitted
       /\ emittedErrors' = ws.errs
       /\ nParsed' = ws.nParsed
       /\ lastLines' = ws.lines
       /\ lastDataLines' = DataLines(data)
       /\ timersPending' = ws.pending
       /\ Listen(ws.emitted, Len(emitted), ws.errs, Len(emittedErrors))
  /\ UNCHANGED <<listening, subscriptions, pc, logTemplate, strict, timeoutId, cbs, internallog,
                 internalerror, since>>
  /\ UNCHANGED <<fnVars, lineVars, fsVars, fileVars, allowPatternViolations, _started, parsedAtStart,
                 returnedLogs, returnedErrors>>

\* one tick of the clock while the retention timer runs
ReaderTick ==
  /\ _retainedLogTimeoutId.armed
  /\ _retainedLogTimeoutId.remaining > 0
  /\ _retainedLogTimeoutId' = [_retainedLogTimeoutId EXCEPT !.remaining = @ - 1]
  /\ sinceData' = IF sinceData < RetainedLogTimeout THEN sinceData + 1 ELSE sinceData
  /\ UNCHANGED <<readerVars, lineVars, fsVars, fnVars, fileVars, restartVars, allowPatternViolations, _started,
                 _partialData, _logs, emitted, emittedErrors, nParsed, delivered, lastLines, lastDataLines, timersPending>>

\* the retention timer's callback, with the reader's listener
ReaderRetainedLogTimeoutFired ==
  /\ _retainedLogTimeoutId.armed
  /\ _retainedLogTimeoutId.remaining = 0
  /\ emitted' = emitted \o Notify(<<_retainedLogTimeoutId.retainedLog>>, "timer")
  /\ _logs' = <<>>
  /\ _retainedLogTimeoutId' = NoTimer
  /\ timersPending' = timersPending - 1
  /\ Listen(emitted', Len(emitted), emittedErrors, Len(emittedErrors))
  /\ UNCHANGED <<listening, subscriptions, pc, logTemplate, strict, timeoutId, cbs, internallog,
                 internalerror, since>>
  /\ UNCHANGED <<fnVars, lineVars, fsVars, fileVars, allowPatternViolations, _started, _partialData,
                 emittedErrors, nParsed, delivered, sinceData, lastLines, lastDataLines, parsedAtStart,
                 returnedLogs, returnedErrors>>

\* LogReader.prototype.getLogs: the caller keeps what it returns, this.logs
GetLogs ==
  /\ ~returnedLogs
  /\ returnedLogs' = TRUE
  /\ UNCHANGED <<readerVars, lineVars, fsVars, fnVars, watcherVars, fileVars, logIds, parsedAtStart,
                 returnedErrors>>

\* LogReader.prototype.getErrors: the caller keeps what it returns, this.errors
GetErrors ==
  /\ ~returnedErrors
  /\ returnedErrors' = TRUE
  /\ UNCHANGED <<readerVars, lineVars, fsVars, fnVars, watcherVars, fileVars, logIds, parsedAtStart,
                 returnedLogs>>

\* what the caller reads in the list that getLogs() / getErrors() returned:
\* the array of the reader itself
ReturnedLogs == logs
ReturnedErrors == errors

ReaderNext2 ==
  \/ GetLogs
  \/ GetErrors
  \/ ReaderStart
  \/ ReaderStop
  \/ \E data \in Chunks(method) : ReaderChunk(data)
  \/ ReaderTick
  \/ ReaderRetainedLogTimeoutFired

ReaderWatcherSpec == ReaderInit2 /\ [][ReaderNext2]_vars

\* ------------------------------------------- a text delivered in pieces
\* A started watcher whose source delivers a text cut into chunks at
\* arbitrary offsets.
MaxText == 5

TextAlphabet == {"a", " ", EOL}
Texts == UNION {[1..n -> TextAlphabet] : n \in 1..MaxText}

LineInit ==
  /\ ReaderInit /\ FileIdle /\ FsIdle
  /\ config = CustomConfig
  /\ method = LogWatcher(config)
  /\ allowPatternViolations = FALSE
  /\ logEntry = <<>> /\ mLog = NoLog /\ mTemplate = NoLog /\ mResult = "none"
  /\ WatcherInit
  /\ sourceText \in Texts
  /\ handed = <<>>

\* LogWatcher.prototype.start
LineStart ==
  /\ ~_started
  /\ _started' = TRUE
  /\ UNCHANGED <<readerVars, lineVars, fsVars, fileVars, restartVars, fnVars, parserVars>>

\* the source delivers the next n characters of the text: _parseLogData
Deliver(n) ==
  /\ _started
  /\ delivered + n <= Len(sourceText)
  /\ delivered' = delivered + n
  /\ sinceData' = 0
  /\ LET data == SubSeq(sourceText, delivered + 1, delivered + n)
         ws == _parseLogData(data, method, allowPatternViolations, WatcherState)
     IN /\ _partialData' = ws.partial
        /\ _logs' = ws.logs
        /\ _retainedLogTimeoutId' = ws.timer
        /\ emitted' = ws.emitted
        /\ emittedErrors' = ws.errs
        /\ nParsed' = ws.nParsed
        /\ lastLines' = ws.lines
        /\ lastDataLines' = DataLines(data)
        /\ timersPending' = ws.pending
        /\ handed' = handed \o [k \in 1..Len(ws.lines) |-> ws.lines[k].line]
  /\ UNCHANGED <<readerVars, fileVars, restartVars, fnVars, fsVars, allowPatternViolations,
                 _started, sourceText>>

LineNext ==
  \/ LineStart
  \/ \E n \in 1..MaxText : Deliver(n)

LineSpec == LineInit /\ [][LineNext]_vars

\* ------------------------------------------------ resilience.createLogFS
\* createLogFS(path, size, cb) for NumPaths paths that do not exist yet: the
\* calls of fs.mkdir, exec('sudo mount ...') and rimraf complete one by one,
\* each with success or with an error.
Paths == 1..NumPaths

\* one createLogFS call: its position, the invocations of cb, the directory
Fs(p) == [pc |-> fsPc[p], cb |-> fsCb[p], dir |-> fsDir[p], mounted |-> fsMounted[p]]

\* cb(err) or cb()
Cb(err, fs) == [fs EXCEPT !.cb = Append(@, IF err THEN "error" ELSE "success")]

\* the callback of fs.mkdir: if (err) return cb(err); otherwise exec(...)
OnMkdir(err, fs) ==
  IF err THEN Cb(TRUE, [fs EXCEPT !.pc = "done"])
  ELSE [fs EXCEPT !.pc = "mount", !.dir = TRUE]

\* the callback of exec: if (err) { rimraf(path, cb); } cb();
OnMount(err, fs) ==
  IF err THEN Cb(FALSE, [fs EXCEPT !.pc = "rimraf"])
  ELSE Cb(FALSE, [fs EXCEPT !.pc = "done", !.mounted = TRUE])

\* rimraf(path, cb) completes: cb(err)
OnRimraf(err, fs) ==
  Cb(err, [fs EXCEPT !.pc = "done", !.dir = IF err THEN @ ELSE FALSE])

SetFs(p, fs) ==
  /\ fsPc' = [fsPc EXCEPT ![p] = fs.pc]
  /\ fsCb' = [fsCb EXCEPT ![p] = fs.cb]
  /\ fsDir' = [fsDir EXCEPT ![p] = fs.dir]
  /\ fsMounted' = [fsMounted EXCEPT ![p] = fs.mounted]
  /\ UNCHANGED <<readerVars, fnVars, watcherVars, fileVars, restartVars, lineVars>>

FsInit ==
  /\ ReaderInit /\ FnIdle /\ allowPatternViolations = FALSE /\ WatcherInit
  /\ FileIdle /\ LineIdle /\ FsIdle

\* createLogFS(path, size, cb): fs.mkdir(path, null, ...) is called
CreateLogFS(p) ==
  /\ fsPc[p] = "idle"
  /\ SetFs(p, [Fs(p) EXCEPT !.pc = "mkdir"])

\* fs.mkdir completes
MkdirDone(p, err) ==
  /\ fsPc[p] = "mkdir"
  /\ SetFs(p, OnMkdir(err, Fs(p)))

\* the mount command completes
MountDone(p, err) ==
  /\ fsPc[p] = "mount"
  /\ SetFs(p, OnMount(err, Fs(p)))

\* rimraf completes
RimrafDone(p, err) ==
  /\ fsPc[p] = "rimraf"
  /\ SetFs(p, OnRimraf(err, Fs(p)))

FsNext ==
  \/ \E p \in Paths : CreateLogFS(p)
  \/ \E p \in Paths, err \in BOOLEAN : MkdirDone(p, err)
  \/ \E p \in Paths, err \in BOOLEAN : MountDone(p, err)
  \/ \E p \in Paths, err \in BOOLEAN : RimrafDone(p, err)

FsSpec == FsInit /\ [][FsNext]_vars

TypeOK ==
  /\ pc \in [Waiters -> {"idle", "returned", "threw", "waiting"}]
  /\ timeoutId \in [Waiters -> BOOLEAN]
  /\ Len(logs) <= MaxLogs \/ Len(logs) <= nParsed
  /\ Len(errors) <= MaxErrors \/ Len(errors) <= Len(emittedErrors)

\* ------------------------------------------------- vocabulary of the claims
\* the step is call w of waitForLogToExist
IsCall(w) == pc[w] = "idle" /\ pc'[w] # "idle"

\* the step is the watcher emitting the record log / the error err
IsWatcherLog(log) == logs' = Append(logs, log)
IsWatcherError(err) == errors' = Append(errors, err)

\* the step is the expiry of the timer of call w
IsExpiry(w) == timeoutId[w] /\ ~timeoutId'[w] /\ logs' = logs /\ errors' = errors /\ pc' = pc

\* what cb received, without the circumstances
Received(e) == [kind |-> e.kind, log |-> e.log, msg |-> e.msg]
Result(kind, log, msg) == [kind |-> kind, log |-> log, msg |-> msg]

\* call w is waiting, and nothing emitted since it was made would complete it
StillDue(w) ==
  /\ Pending(w)
  /\ timeoutId[w]
  /\ since[w] # "other"
  /\ strict[w] => since[w] = "nothing"

\* what reading the `logs` property of the error of entry e gives now: the
\* current content of the array it refers to
ErrLogsNow(e) == IF e.errLogs = "self.logs" THEN logs ELSE <<>>
\* and what reading it gives after the step
ErrLogsAfter(e) == IF e.errLogs = "self.logs" THEN logs' ELSE <<>>

\* C1: the completion callback of every waitForLogToExist call is invoked
\* exactly once; here: it is never invoked a second time (that it is invoked
\* at least once is the liveness half, C8).
C1_CallbackExactlyOnce == \A w \in Waiters : Len(cbs[w]) <= 1

\* C2: the completion of one waiter ends that waiter only: a pending waiter
\* that a step does not complete keeps both its subscriptions, so that a later
\* record matching its template still reaches it.
C2_OtherWaitersStaySubscribed ==
  [][\A w \in Waiters :
       (Pending(w) /\ InSeq(w, internallog) /\ InSeq(w, internalerror) /\ cbs'[w] = <<>>)
         => (InSeq(w, internallog') /\ InSeq(w, internalerror'))]_vars

\* C3: a call made while the error list is not empty invokes the callback in
\* the call itself, once, with one upstream error whose message holds the
\* message of every stored error, whatever the stored records are.
C3_StoredErrorsFailAtOnce ==
  [][\A w \in Waiters :
       (IsCall(w) /\ errors # <<>>)
         => /\ pc'[w] = "returned"
            /\ Len(cbs'[w]) = 1
            /\ cbs'[w][1].kind = "upstream"
            /\ cbs'[w][1].log = NoLog
            /\ LET msg == cbs'[w][1].msg IN
                 /\ \A i \in 1..Len(errors) : \E j \in 1..Len(msg) : msg[j] = errors[i].message
                 /\ Cardinality({j \in 1..Len(msg) : \E e \in Errs : msg[j] = e.message})
                      = Len(errors)]_vars

C3_Witness ==
  \E w \in Waiters :
    /\ pc[w] = "returned"
    /\ Len(errors) = 2
    /\ cbs[w] # <<>> /\ cbs[w][1].kind = "upstream" /\ Len(cbs[w][1].msg) > 3
    /\ logTemplate[w] = TmplA
    /\ \E i \in 1..Len(logs) : _matches(logs[i], logTemplate[w]) = "true"

\* the stored record of lowest index that matches the template
FirstMatch(lgs, tmpl) ==
  lgs[CHOOSE i \in 1..Len(lgs) :
        /\ _matches(lgs[i], tmpl) = "true"
        /\ \A j \in 1..(i - 1) : _matches(lgs[j], tmpl) # "true"]

\* C4: a non-strict call made with an empty error list and a stored record
\* that matches the template invokes the callback in the call itself with the
\* matching record of lowest index, the timer cancelled and no subscription.
C4_StoredMatchAtOnce ==
  [][\A w \in Waiters :
       (/\ IsCall(w) /\ ~strict'[w] /\ errors = <<>>
        /\ \E i \in 1..Len(logs) : _matches(logs[i], logTemplate'[w]) = "true")
         => /\ Len(cbs'[w]) = 1
            /\ Received(cbs'[w][1]) = Result("found", FirstMatch(logs, logTemplate'[w]), <<>>)
            /\ ~timeoutId'[w]
            /\ ~InSeq(w, internallog') /\ ~InSeq(w, internalerror')]_vars

\* C5: for a waiting call, the first record emitted after the call that
\* matches its template, before its timer expires and before any error (in
\* strict mode, before any record that does not match), completes it with
\* success carrying that record.
C5_FutureMatchCompletes ==
  [][\A w \in Waiters : \A log \in Records :
       (StillDue(w) /\ IsWatcherLog(log) /\ _matches(log, logTemplate[w]) = "true")
         => (Len(cbs'[w]) = 1 /\ Received(cbs'[w][1]) = Result("found", log, <<>>))]_vars

\* the outcome a strict waiter owes to the first record it considers
StrictOutcome(log, tmpl) ==
  IF _matches(log, tmpl) = "true" THEN Result("found", log, <<>>)
  ELSE Result("unexpected", log, <<>>)

\* C6: in strict mode the first record considered decides: the first stored
\* record, or with none stored the first record emitted after the call, gives
\* success when it matches and an unexpected-record error carrying it when it
\* does not, and the callback never receives a timeout error.
C6_StrictFirstRecordDecides ==
  [][\A w \in Waiters :
       /\ (IsCall(w) /\ strict'[w] /\ errors = <<>> /\ logs # <<>>)
            => (Len(cbs'[w]) = 1
                /\ Received(cbs'[w][1]) = StrictOutcome(logs[1], logTemplate'[w]))
       /\ \A log \in Records :
            (StillDue(w) /\ strict[w] /\ IsWatcherLog(log))
              => (Len(cbs'[w]) = 1
                  /\ Received(cbs'[w][1]) = StrictOutcome(log, logTemplate[w]))
       /\ (strict[w] /\ cbs[w] # <<>> /\ cbs[w][1].kind \in {"found", "unexpected"})
            => \A i \in 1..Len(cbs'[w]) : cbs'[w][i].kind # "timeout"]_vars

\* C7: for a waiting call, the first error emitted after the call, before
\* any completing record and before its timer expires, completes it with an
\* upstream error carrying that error alone.
C7_FutureErrorCompletes ==
  [][\A w \in Waiters : \A err \in Errs :
       (StillDue(w) /\ IsWatcherError(err))
         => (Len(cbs'[w]) = 1
             /\ Received(cbs'[w][1]) = Result("upstream", NoLog, ErrorText(err)))]_vars

\* C8: every call eventually invokes its callback; a call that nothing has
\* completed when its timer expires receives a timeout error then, also on a
\* stopped reader.
C8_CallbackEventually ==
  /\ \A w \in Waiters : (pc[w] # "idle") ~> (cbs[w] # <<>>)
  /\ [][\A w \in Waiters :
          (IsExpiry(w) /\ cbs[w] = <<>>)
            => (Len(cbs'[w]) = 1 /\ cbs'[w][1].kind = "timeout")]_vars

C8_Witness ==
  \E w \in Waiters :
    /\ ~listening
    /\ pc[w] = "waiting"
    /\ since[w] = "misses"
    /\ Len(cbs[w]) = 1 /\ cbs[w][1].kind = "timeout"

\* C9: on every exit path, when the callback is invoked the timer of the call
\* is not armed and the call holds no subscription.
C9_ReleasedBeforeCallback ==
  \A w \in Waiters : \A i \in 1..Len(cbs[w]) :
    ~cbs[w][i].timerArmed /\ ~cbs[w][i].subscribed

\* C10: a call whose callback received a found record received nothing else,
\* before or after, and at that invocation its timer was cancelled and its
\* subscriptions removed.
C10_SuccessOnceAndReleased ==
  \A w \in Waiters : \A i \in 1..Len(cbs[w]) :
    cbs[w][i].kind = "found"
      => (Len(cbs[w]) = 1 /\ ~cbs[w][i].timerArmed /\ ~cbs[w][i].subscribed /\ ~timeoutId[w]
          /\ ~InSeq(w, internallog) /\ ~InSeq(w, internalerror))

C10_Witness ==
  \E w, v \in Waiters :
    /\ w # v
    /\ pc[w] = "waiting" /\ Len(cbs[w]) = 1 /\ cbs[w][1].kind = "found"
    /\ pc[v] = "returned" /\ Len(cbs[v]) = 1 /\ cbs[v][1].kind = "found"

\* C11: the record list a timeout error carries equals the reader's record
\* list at the moment the timer expired and stays equal to it afterwards,
\* whatever is emitted later and also across a later start().
C11_TimeoutSnapshotStable ==
  [][\A w \in Waiters :
       /\ IsExpiry(w) => ErrLogsAfter(cbs'[w][Len(cbs'[w])]) = logs
       /\ \A i \in 1..Len(cbs[w]) :
            cbs[w][i].kind = "timeout" => ErrLogsAfter(cbs[w][i]) = ErrLogsNow(cbs[w][i])]_vars

\* what the matching rule gives for one field of the template
FieldRule(log, tmpl, f) ==
  /\ f \in DOMAIN log.fields
  /\ \/ tmpl.fields[f] = Undefined
     \/ tmpl.fields[f].t = "regexp" /\ log.fields[f].s \in RegExpHits(tmpl.fields[f].s)
     \/ log.fields[f] = tmpl.fields[f]

\* C12: for every record and every non-empty template, _matches returns a
\* boolean, the conjunction over the template's fields of: the record has the
\* field, and the expected value is undefined, or is a regular expression
\* that hits the stringified record value, or equals the record value.
C12_MatchesIsFieldConjunction ==
  (mResult # "none" /\ mLog.type = "object" /\ mTemplate.type = "object"
     /\ DOMAIN mTemplate.fields # {})
    => mResult = (IF \A f \in DOMAIN mTemplate.fields : FieldRule(mLog, mTemplate, f)
                  THEN "true" ELSE "false")

\* a template that is null, undefined or a mapping with no fields
EmptyTemplate(tmpl) == tmpl.type # "object" \/ DOMAIN tmpl.fields = {}

\* C13: an empty template (null, undefined, or a mapping with no fields)
\* matches any record: _matches returns true for every record.
C13_EmptyTemplateMatchesAll ==
  (mResult # "none" /\ EmptyTemplate(mTemplate)) => mResult = "true"

\* C14: template symmetry: for every record the parser produces (pattern,
\* JSON or custom mode), the template made of the record's own fields and
\* values matches the record.
C14_TemplateSymmetry ==
  (mLog # NoLog /\ mTemplate = mLog /\ mResult # "none") => mResult = "true"

\* C20: in pattern mode a capture group that did not take part in the match
\* gives an absent field: the record has no entry of that name, and a template
\* naming that field does not match the record.
C20_AbsentCaptureAbsentField ==
  (method = "regexp" /\ mLog # NoLog
     /\ PatternExec(Trim(logEntry)).fieldsValues[1] = Undefined)
    => /\ "opt" \notin DOMAIN mLog.fields
       /\ (mResult # "none" /\ mTemplate.type = "object" /\ "opt" \in DOMAIN mTemplate.fields)
            => mResult # "true"

\* the ids of the records of a list
Ids(q) == {q[i].id : i \in 1..Len(q)}

\* C15: across any interleaving of chunks and retention-timer expiries the
\* 'log' notifications are a prefix of the parsed records in source order:
\* none twice, none before an earlier one, and a record released by the timer
\* before every record parsed from later bytes.
C15_EmittedInSourceOrder ==
  /\ Len(emitted) <= nParsed
  /\ \A i \in 1..Len(emitted) : emitted[i].id = i

C15_Witness ==
  /\ method = "regexp"
  /\ \E i, j \in 1..Len(emitted) : i < j /\ emitted[i].by = "timer" /\ emitted[j].by = "data"
  /\ _logs # <<>>

\* C16: no parsed record is lost: when stop() is called, every record parsed
\* so far has been emitted or is held in the retention buffer.
C16_NoRecordLostAtStop ==
  [][(_started /\ ~_started') => (1..nParsed) \subseteq (Ids(emitted) \cup Ids(_logs))]_vars

C16_Witness ==
  /\ ~_started
  /\ method = "regexp"
  /\ emitted # <<>>
  /\ _logs # <<>> /\ _retainedLogTimeoutId.armed

\* the step is the retention timer emitting its record
IsTimerEmission ==
  Len(emitted') = Len(emitted) + 1 /\ emitted'[Len(emitted')].by = "timer"

\* C17: in pattern mode, a retained record, when no further bytes arrive, is
\* emitted by the retention timer: exactly once, the buffer empty afterwards,
\* and not before retainedLogTimeout has passed since the last bytes arrived.
C17_RetainedEmittedAfterTimeout ==
  /\ \A n \in 0..MaxBytes :
       (method = "regexp" /\ _logs # <<>> /\ delivered = n)
         ~> (delivered > n \/ (_logs = <<>> /\ nParsed = Len(emitted)))
  /\ [][IsTimerEmission
          => /\ sinceData >= RetainedLogTimeout
             /\ Len(_logs) = 1
             /\ emitted' = emitted \o Notify(_logs, "timer")
             /\ _logs' = <<>>]_vars
  /\ [](\A i, j \in 1..Len(emitted) : emitted[i].id = emitted[j].id => i = j)

C17_Witness ==
  /\ _started
  /\ emitted # <<>> /\ emitted[Len(emitted)].by = "timer"
  /\ _partialData # <<>>
  /\ _logs = <<>>

\* C18: stop() cancels the pending retention timer: after stop() the watcher
\* emits no 'log' notification until it is started again.
C18_NoLogWhileStopped ==
  [][Len(emitted') > Len(emitted) => _started]_vars

IsErrorLine(e) == e.nErrors = 1
LineOf(e) == e.line

\* C19: in pattern mode a line that does not match the pattern is appended,
\* after a line terminator, to the last field of the most recently parsed
\* record held in the buffer, iff allowPatternViolations is true and the
\* buffer holds a record (also a record of an earlier chunk); otherwise one
\* 'error' notification is emitted for the line and no record is changed.
C19_PatternViolationPolicy ==
  /\ [](method = "regexp" =>
         \A k \in 1..Len(lastLines) :
           LET e == lastLines[k]
               n == Len(e.before)
               lastField == FieldNames[Len(FieldNames)] IN
           e.parsedAs = 0 =>
             IF allowPatternViolations /\ e.before # <<>>
             THEN /\ e.nErrors = 0
                  /\ e.appendedTo = e.before[n].id
                  /\ \A i \in 1..n : e.before[i].id <= e.appendedTo
                  /\ Len(e.after) = n
                  /\ \A i \in 1..(n - 1) : e.after[i] = e.before[i]
                  /\ e.after[n].id = e.before[n].id
                  /\ \A f \in DOMAIN e.before[n].log.fields \ {lastField} :
                       e.after[n].log.fields[f] = e.before[n].log.fields[f]
                  /\ e.after[n].log.fields[lastField]
                       = Str(e.before[n].log.fields[lastField].s \o EOL \o Text(e.line))
             ELSE /\ e.nErrors = 1 /\ e.appendedTo = 0
                  /\ e.after = e.before)
  /\ [][lastLines' # lastLines =>
          LET errLines == SelectSeq(lastLines', IsErrorLine) IN
          emittedErrors' = emittedErrors \o [i \in 1..Len(errLines) |-> errLines[i].line]]_vars

C19_Witness ==
  /\ method = "regexp"
  /\ \E k \in 1..Len(lastLines) :
       lastLines[k].appendedTo # 0 /\ lastLines[k].heldFromEarlier
  /\ emittedErrors # <<>>

\* C21: in custom mode a line for which the caller's function returns null is
\* ignored: no 'log' notification (so nothing for a reader to store) and no
\* 'error' notification is emitted for it.
C21_NullResultIgnored ==
  method = "custom" =>
    /\ \A i \in 1..Len(emitted) : emitted[i].log # NullObj
    /\ \A k \in 1..Len(lastLines) :
         (Fn(lastLines[k].line) = NullObj /\ ~FnThrows(lastLines[k].line))
           => (lastLines[k].parsedAs = 0 /\ lastLines[k].nErrors = 0)

\* how many of the three modes a config selects
ModesSelected(cfg) ==
  (IF cfg.json = "true" THEN 1 ELSE 0)
    + (IF cfg.fn = "function" THEN 1 ELSE 0)
    + (IF cfg.pattern = "regexp" /\ cfg.fieldNames = "array" THEN 1 ELSE 0)

\* C22: construction succeeds only for a config that selects exactly one of
\* the three modes; one that selects none, or more than one, makes the
\* constructor throw the unsupported-method error.
C22_ExactlyOneModeOrThrow ==
  method # "none" => (method # "throw" <=> ModesSelected(config) = 1)

\* a line of the JSON method that decodes and, with a schema, satisfies it
JsonGood(line) ==
  JSONParse(line).ok /\ (config.schema => JsonValidate(JSONParse(line).log))

JsonBad(line) == ~JsonGood(line)

\* C23: in the JSON method a chunk yields, line by line and in order, exactly
\* one 'error' and no 'log' for each line that does not decode or violates the
\* schema, and exactly one 'log' with the decoded document and no 'error' for
\* each valid line
C23_JsonOneNotificationPerLine ==
  [][(method = "json" /\ delivered' > delivered) =>
       LET good == SelectSeq(lastDataLines', JsonGood)
           bad == SelectSeq(lastDataLines', JsonBad)
       IN /\ Len(emitted') = Len(emitted) + Len(good)
          /\ \A i \in 1..Len(good) :
               emitted'[Len(emitted) + i].log = JSONParse(good[i]).log
          /\ emittedErrors' = emittedErrors \o bad]_vars

\* a document that decodes but violates the schema and a valid one have been
\* read
C23_Witness ==
  /\ method = "json" /\ config.schema
  /\ emittedErrors = <<<<"{", "}">>>>
  /\ \E i \in 1..Len(emitted) : emitted[i].log = RecA

\* C24: a chunk is parsed to its end whatever errors its lines raise: every
\* complete non-blank line is handled, in order; a line that parses on its own
\* yields a record that is emitted or retained, also after an 'error' of the
\* same chunk or of an earlier one; and the watcher stays started
C24_ParseErrorDoesNotAbort ==
  [][delivered' > delivered =>
       /\ _started'
       /\ Len(lastLines') = Len(lastDataLines')
       /\ \A k \in 1..Len(lastLines') :
            /\ lastLines'[k].line = lastDataLines'[k]
            /\ ~_parseLogEntry(method, lastDataLines'[k]).thrown =>
                 /\ lastLines'[k].parsedAs # 0
                 /\ lastLines'[k].parsedAs \in Ids(emitted') \cup Ids(_logs')
            /\ (_parseLogEntry(method, lastDataLines'[k]).thrown
                   /\ ~(method = "regexp" /\ allowPatternViolations)) =>
                 lastLines'[k].nErrors = 1]_vars

\* a line of a chunk was parsed and its record emitted or retained after an
\* earlier line of the same chunk raised an 'error', errors of earlier chunks
\* having been raised before
C24_Witness ==
  /\ _started
  /\ Len(emittedErrors) >= 2
  /\ \E j, k \in 1..Len(lastLines) :
       /\ j < k
       /\ lastLines[j].nErrors = 1
       /\ lastLines[k].parsedAs \in Ids(emitted) \cup Ids(_logs)

\* the watches that are live: a pending poll timer, an open directory handle,
\* an attached pair of stream listeners
Live == {i \in 1..Len(watches) : watches[i].live}

\* C25: in file mode every stat or read failure other than ENOENT is emitted as
\* an 'error', and a started watcher that polls keeps a poll scheduled
C25_IOFailureIsErrorAndPollingGoesOn ==
  source = "file" =>
    /\ ioErrors = ioFailures
    /\ (polling /\ _started) => Live # {}

\* the ranges follow one another without gap or overlap, none of them empty
Contiguous(rs) ==
  /\ \A k \in 1..Len(rs) : rs[k].from < rs[k].to
  /\ \A k \in 1..(Len(rs) - 1) : rs[k].to = rs[k + 1].from

\* the watch of the last start
Current == watches[Len(watches)]

\* C26: while the file only grows and no listener calls stop() or start(),
\* whatever ticks and notifications happen the offsets read never decrease and
\* the ranges handed to the parser follow one another without overlap or gap,
\* up to the size last observed, which is never beyond the end of the file
C26_RangesReadOnceInOrder ==
  (source = "file" /\ ~reentered /\ watches # <<>>) =>
    /\ Contiguous(ranges)
    /\ \A k \in 1..Len(ranges) : ranges[k].to <= fileSize
    /\ ranges # <<>> => ranges[Len(ranges)].to = Current.prevSize

\* the file has grown twice and both appended ranges have been read, up to its
\* end
C26_Witness ==
  /\ source = "file" /\ ~reentered
  /\ Len(ranges) >= 2
  /\ ranges[Len(ranges)].to = fileSize

\* C27: the bytes parsed start where the file ended when start() was called,
\* at offset 0 if it did not exist then, and no byte before that is parsed
C27_OnlyBytesAppendedAfterStart ==
  (source = "file" /\ ~reentered /\ ranges # <<>>) =>
    /\ ranges[1].from = (IF Current.sizeAtStart = Absent THEN 0 ELSE Current.sizeAtStart)
    /\ \A k \in 1..Len(ranges) : ranges[k].from >= ranges[1].from

\* a file with content at start() of which only the bytes appended later were
\* read
C27_Witness ==
  /\ source = "file" /\ ~reentered
  /\ ranges # <<>>
  /\ Current.sizeAtStart > 0
  /\ ranges[1].from = Current.sizeAtStart

\* a file created after start() and read from offset 0
C27_WitnessCreatedLater ==
  /\ source = "file" /\ ~reentered
  /\ ranges # <<>>
  /\ Current.sizeAtStart = Absent
  /\ ranges[1].from = 0

\* C28: at most one underlying watch is live, whatever start() and stop() calls
\* were made, from listeners too
C28_AtMostOneWatch == Cardinality(Live) <= 1

\* C29: once stop() has returned nothing of the source is live: no poll timer
\* pending, no directory handle open, no stream listener attached
C29_StopReleasesTheSource == ~_started => Live = {}

\* C30: after LogReader.start() the list of records holds only records parsed
\* after that start(): none that the watcher had parsed before it
C30_OnlyRecordsSinceStart ==
  \A k \in 1..Len(logIds) : logIds[k] > parsedAtStart

\* C31: in the JSON and the custom method nothing is retained: after each
\* chunk the buffer is empty, no retention timer is armed and every record
\* parsed so far has been emitted, by the chunk that brought it
C31_NothingRetainedOutsidePatternMode ==
  method \in {"json", "custom"} =>
    /\ _logs = <<>>
    /\ ~_retainedLogTimeoutId.armed
    /\ Len(emitted) = nParsed
    /\ \A i \in 1..Len(emitted) : emitted[i].id = i /\ emitted[i].by = "data"

\* two records parsed from one chunk in the JSON or the custom method, both
\* emitted
C31_Witness ==
  /\ method \in {"json", "custom"}
  /\ Len(emitted) >= 2
  /\ \E j, k \in 1..Len(lastLines) :
       j < k /\ lastLines[j].parsedAs # 0 /\ lastLines[k].parsedAs # 0

\* C32: a list that getLogs() or getErrors() has returned is not changed by the
\* records and errors that arrive afterwards nor by a later LogReader.start()
C32_AccessorsReturnSnapshots ==
  [][/\ returnedLogs => ReturnedLogs' = ReturnedLogs
     /\ returnedErrors => ReturnedErrors' = ReturnedErrors]_vars

\* C33: in the RegExp method, after each chunk and after each expiry of the
\* retention timer the buffer holds at most one record, and the retention
\* timer is armed only while the buffer holds exactly one record, the one
\* the timer will emit
C33_AtMostOneRetained ==
  method = "regexp" =>
    /\ Len(_logs) <= 1
    /\ _retainedLogTimeoutId.armed =>
         (Len(_logs) = 1 /\ _logs[1] = _retainedLogTimeoutId.retainedLog)

\* a chunk brought two records: the first was emitted, the second is retained
\* with the timer armed
C33_Witness ==
  /\ method = "regexp"
  /\ Len(_logs) = 1 /\ _retainedLogTimeoutId.armed
  /\ _logs[1].id >= 2
  /\ \E j, k \in 1..Len(lastLines) :
       j < k /\ lastLines[j].parsedAs # 0 /\ lastLines[k].parsedAs = _logs[1].id

\* C34: in the RegExp method every delivery, also one that completes no line,
\* cancels the pending retention timer: the timer that is armed after it is a
\* new one with the whole timeout ahead, and the delivery itself emits nothing
\* through the timer; an armed timer always counts from the last delivery, so
\* it cannot fire while deliveries are less than the timeout apart; and at
\* most one retention timer is pending at any time
C34_DeliveryCancelsRetentionTimer ==
  /\ [][(method = "regexp" /\ delivered' > delivered) =>
          /\ _retainedLogTimeoutId'.armed =>
               _retainedLogTimeoutId'.remaining = RetainedLogTimeout
          /\ \A i \in (Len(emitted) + 1)..Len(emitted') : emitted'[i].by = "data"]_vars
  /\ [](method = "regexp" =>
          /\ timersPending <= 1
          /\ _retainedLogTimeoutId.armed <=> timersPending = 1
          /\ _retainedLogTimeoutId.armed =>
               _retainedLogTimeoutId.remaining + sinceData = RetainedLogTimeout)

\* a delivery that completed no line arrived while a record was retained: the
\* record is still retained and its timer has the whole timeout ahead
C34_Witness ==
  /\ method = "regexp"
  /\ delivered >= 3
  /\ lastDataLines = <<>> /\ _partialData # <<>> /\ sinceData = 0
  /\ Len(_logs) = 1
  /\ _retainedLogTimeoutId.armed
  /\ _retainedLogTimeoutId.remaining = RetainedLogTimeout

\* C35: a start() of a stopped watcher leaves the line reassembler and the
\* retention buffer empty: no partial fragment, no retained record and no
\* retention timer of before the restart
C35_RestartClearsParserState ==
  [][(~_started /\ _started') =>
       /\ _partialData' = <<>>
       /\ _logs' = <<>>
       /\ ~_retainedLogTimeoutId'.armed]_vars

\* C36: the text of a line that does not match the pattern is appended only to
\* a record that has not been emitted, neither before the chunk nor by it
\* ahead of the append, and what was emitted stays as it was emitted
C36_EmittedRecordsNotModified ==
  [][/\ Len(emitted') >= Len(emitted)
     /\ \A i \in 1..Len(emitted) : emitted'[i] = emitted[i]
     /\ delivered' > delivered =>
          \A k \in 1..Len(lastLines') :
            lastLines'[k].appendedTo # 0 =>
              /\ lastLines'[k].appendedTo \notin Ids(emitted)
              /\ \A i \in (Len(emitted) + 1)..Len(emitted') :
                   emitted'[i].id = lastLines'[k].appendedTo =>
                     emitted'[i].log = lastLines'[k].after[Len(lastLines'[k].after)].log
                     \/ \E j \in (k + 1)..Len(lastLines') :
                          lastLines'[j].appendedTo = lastLines'[k].appendedTo]_vars

\* a line was appended to the record retained from an earlier chunk, after
\* other records had been emitted
C36_Witness ==
  /\ method = "regexp" /\ allowPatternViolations
  /\ emitted # <<>>
  /\ \E k \in 1..Len(lastLines) :
       /\ lastLines[k].appendedTo # 0
       /\ lastLines[k].heldFromEarlier
       /\ lastLines[k].appendedTo \notin Ids(emitted)

\* the lines of a text that have their terminator, and what follows the last
\* terminator
RECURSIVE TerminatedLines(_, _)
TerminatedLines(chars, line) ==
  IF chars = <<>> THEN <<>>
  ELSE IF Head(chars) = EOL THEN <<line>> \o TerminatedLines(Tail(chars), <<>>)
  ELSE TerminatedLines(Tail(chars), Append(line, Head(chars)))

RECURSIVE Fragment(_, _)
Fragment(chars, line) ==
  IF chars = <<>> THEN line
  ELSE IF Head(chars) = EOL THEN Fragment(Tail(chars), <<>>)
  ELSE Fragment(Tail(chars), Append(line, Head(chars)))

IsBlank(line) == \A i \in 1..Len(line) : line[i] = " "
NotBlank(line) == ~IsBlank(line)

\* the part of the text delivered so far
Delivered == SubSeq(sourceText, 1, delivered)

\* C37: however the text is cut into chunks, the lines handed to the entry
\* parser so far are the non-blank terminated lines of the text delivered so
\* far, in order and once each, and the unterminated rest is held back as the
\* fragment; so the whole text gives the same lines as when delivered at once
C37_LineIntegrity ==
  /\ handed = SelectSeq(TerminatedLines(Delivered, <<>>), NotBlank)
  /\ _partialData = Fragment(Delivered, <<>>)

\* a blank line was skipped and the unterminated rest of the text delivered so
\* far is held back, its terminator still to come
C37_Witness ==
  /\ sourceText = <<" ", EOL, "a", " ", EOL>>
  /\ delivered = 4
  /\ handed = <<>>
  /\ _partialData = <<"a", " ">>

\* C38: a poll tick or change notification that finds the file smaller than
\* the size recorded before sets the read offset of its watch to 0
C38_TruncationResetsOffset ==
  [][\A i \in 1..Len(watches) :
       (/\ fileSize # Absent
        /\ fileSize < watches[i].prevSize
        /\ watches'[i].prevSize # watches[i].prevSize)
         => watches'[i].prevSize = 0]_vars

\* C39: the reader has exactly one 'log' and one 'error' listener on its
\* watcher while it is started and none while it is stopped, every
\* notification adds exactly one element to its list, and a record handed to
\* the callback of a waiter is in the reader's logs when the callback runs
C39_OneSubscriptionAppendBeforeDispatch ==
  /\ [](subscriptions = IF listening THEN [log |-> 1, error |-> 1] ELSE NoSubscriptions)
  /\ [](\A w \in Waiters : \A i \in 1..Len(cbs[w]) : cbs[w][i].inLogs)
  /\ [][/\ Len(logs') > Len(logs) => Len(logs') = Len(logs) + 1
        /\ Len(errors') > Len(errors) => Len(errors') = Len(errors) + 1]_vars

\* a started reader whose record, appended to its logs, completed a waiting call
C39_Witness ==
  /\ listening
  /\ subscriptions = [log |-> 1, error |-> 1]
  /\ \E w \in Waiters :
       /\ pc[w] = "waiting"
       /\ cbs[w] # <<>>
       /\ cbs[w][1].kind = "found"
       /\ InSeq(cbs[w][1].log, logs)

\* C40: createLogFS invokes its callback at most once, exactly once when
\* it has finished, and not with success while the removal of the directory
\* after a failed mount is still going on
C40_CallbackOnceAfterCleanup ==
  \A p \in Paths :
    /\ Len(fsCb[p]) <= 1
    /\ fsPc[p] = "done" => Len(fsCb[p]) = 1
    /\ fsPc[p] = "rimraf" => ~InSeq("success", fsCb[p])
====
